---- MODULE Spec2Model ----
(***************************************************************************)
(* Model of the FlexR feedback front end: the Low Relevance Analysis page  *)
(* (list loading, pagination, date filter) and its CSV / PDF exports, the  *)
(* No Result Analysis page, and the site behind the api client: the token, *)
(* the AuthProvider, and the pages Dashboard, FeedbackManagement, QALogs   *)
(* and UserManagement with the requests they send and the answers they     *)
(* take.                                                                   *)
(*                                                                         *)
(* Encodings.  A JavaScript string is a sequence of one-character strings. *)
(* The value null of a `string | null` field is the one-element sequence   *)
(* NullContent, whose element is not a character.  A relevance score is an *)
(* integer number of 1e-5 units (100000 is 1.0).  A date range is <<>>     *)
(* (null) or a pair <<startDay, endDay>>.                                  *)
(***************************************************************************)
EXTENDS Integers, Sequences, FiniteSets, TLC

VARIABLES
    data,          \* useState data: the summaries shown by the table
    loading,       \* useState loading
    exportingCsv,  \* useState exportingCsv
    exportingPdf,  \* useState exportingPdf
    error,         \* useState error ("null" when null)
    dateRange,     \* useState dateRange
    pagination,    \* useState pagination: [current, pageSize, total]
    inflight,      \* requests awaiting their response
    issued,        \* number of requests issued so far
    files,         \* files handed to the browser for download, oldest first
    server,        \* the backend's stored low-relevance rows, per (start_date, end_date)
    route,         \* the route whose page is mounted
    noResult,      \* the useState values of the page NoResultAnalysis
    noResultServer, \* the backend's no-result summary, per (start_date, end_date)
    authToken,     \* api.ts let authToken ("null" when null)
    sessionStorage, \* the item auth_token of sessionStorage ("null" when absent)
    auth,          \* useState of AuthProvider: [isAuthenticated, isLoading,
                   \* userInfo] (userInfo <<>> for null)
    mounted,       \* the mounted page component: the id of its first request
    qaLogs,        \* the useState values of the page QALogs
    feedbackManagement, \* the useState values of the page FeedbackManagement
    userManagement, \* the useState values of the page UserManagement
    dashboard,     \* the useState values of the page Dashboard
    wire,          \* requests of the api client awaiting their response
    db             \* the backend's store: which rows it was set up with, and
                   \* the number of users created since

\* The api client, the AuthProvider and the pages that are modelled with them.
site == <<authToken, sessionStorage, auth, mounted, qaLogs, feedbackManagement,
          userManagement, dashboard, wire, db>>

vars == <<data, loading, exportingCsv, exportingPdf, error, dateRange,
          pagination, inflight, issued, files, server, route, noResult,
          noResultServer, site>>

\* What the handlers of LowRelevanceAnalysis cannot reach.
others == <<route, noResult, noResultServer, site>>

----------------------------------------------------------------------------
(* Bounds *)

MaxRecords == 3
MaxRequests == 4
MaxFiles == 2
MaxCalls == 5

----------------------------------------------------------------------------
(* Strings *)

Range(s) == {s[i] : i \in DOMAIN s}

Min(a, b) == IF a < b THEN a ELSE b

NullContent == <<"null">>

Undefined == <<"u", "n", "d", "e", "f", "i", "n", "e", "d">>

NA == <<"N", "/", "A">>

Digits == <<"0", "1", "2", "3", "4", "5", "6", "7", "8", "9">>

DigitValue(c) == CHOOSE d \in 0..9 : Digits[d + 1] = c

IsDigit(c) == \E d \in 0..9 : Digits[d + 1] = c

\* Order of two digit strings of one length: the first place they differ decides.
LexLess(a, b) ==
    \E i \in DOMAIN a :
        /\ \A j \in 1..(i - 1) : a[j] = b[j]
        /\ DigitValue(a[i]) < DigitValue(b[i])

\* Numeric order of two canonical decimal numerals.
NumLess(a, b) == Len(a) < Len(b) \/ (Len(a) = Len(b) /\ LexLess(a, b))

\* An "array index" property key: a canonical decimal numeral below 2^32 - 1.
IsArrayIndex(s) ==
    /\ Len(s) > 0
    /\ \A i \in DOMAIN s : IsDigit(s[i])
    /\ (Len(s) = 1 \/ s[1] # "0")
    /\ NumLess(s, <<"4", "2", "9", "4", "9", "6", "7", "2", "9", "5">>)

TruncLen == 200

\* content?.substring(0, 200): undefined for null, else the first 200 characters.
Substring200(content) ==
    IF content = NullContent THEN NullContent
    ELSE SubSeq(content, 1, Min(Len(content), TruncLen))

\* Number.prototype.toFixed(4) of a score in [0, 1.0]: round to 1e-4 (ties up),
\* then one integer digit, a point and four decimals.
Round4(score) == (score + 5) \div 10

ToFixed4(score) ==
    LET n == Round4(score)
    IN <<Digits[(n \div 10000) + 1], ".", Digits[((n \div 1000) % 10) + 1],
         Digits[((n \div 100) % 10) + 1], Digits[((n \div 10) % 10) + 1],
         Digits[(n % 10) + 1]>>

\* A value interpolated into a template literal: undefined prints "undefined".
Interpolate(v) == IF v = NullContent THEN Undefined ELSE v

----------------------------------------------------------------------------
(* Export: the data fetched for an export is a sequence of summaries       *)
(* [query, results], each result [id, content, relevance_score,            *)
(* section_name, title].                                                   *)

RECURSIVE FlatPairs(_)
\* The visiting order of allData.data.forEach(summary => summary.results.forEach(...)).
FlatPairs(summaries) ==
    IF summaries = <<>> THEN <<>>
    ELSE [i \in 1..Len(summaries[1].results) |->
              [query |-> summaries[1].query, detail |-> summaries[1].results[i]]]
         \o FlatPairs(Tail(summaries))

TierLabels == <<"0.6 - 0.65", "0.5 - 0.6", "0.4 - 0.5", "< 0.4">>

ClassifyStrict(score) ==
    IF score > 60000 THEN "0.6 - 0.65"
    ELSE IF score > 50000 THEN "0.5 - 0.6"
    ELSE IF score > 40000 THEN "0.4 - 0.5"
    ELSE "< 0.4"

\* The if / else-if chain that picks the tier of a score.
Classify(score) ==
    IF score >= 60000 THEN "0.6 - 0.65"
    ELSE IF score >= 50000 THEN "0.5 - 0.6"
    ELSE IF score >= 40000 THEN "0.4 - 0.5"
    ELSE "< 0.4"

SetAddAgain(seq, x) == Append(seq, x)

\* Set.prototype.add on a Set kept in insertion order.
SetAdd(seq, x) == IF x \in Range(seq) THEN seq ELSE Append(seq, x)

\* `${summary.query}|${detail.content?.substring(0, 200)}|${score.toFixed(4)}`
AnswerKey(query, detail) ==
    query \o <<"|">> \o Interpolate(Substring200(detail.content))
          \o <<"|">> \o ToFixed4(detail.relevance_score)

\* Property names every plain object inherits from Object.prototype.
ObjectPrototypeKeys ==
    { <<"c","o","n","s","t","r","u","c","t","o","r">>,
      <<"_","_","p","r","o","t","o","_","_">>,
      <<"t","o","S","t","r","i","n","g">>,
      <<"v","a","l","u","e","O","f">> }

EmptyObject == [keys |-> <<>>, val |-> <<>>]

HasOwn(obj, k) == k \in Range(obj.keys)

KeyIndex(obj, k) == CHOOSE i \in DOMAIN obj.keys : obj.keys[i] = k

\* obj[k] is truthy: an own array, or something inherited from Object.prototype.
Truthy(obj, k) == HasOwn(obj, k) \/ k \in ObjectPrototypeKeys

\* obj[k].push(x) on an own array property.
Push(obj, k, x) == [obj EXCEPT !.val[KeyIndex(obj, k)] = Append(@, x)]

\* obj[k] = [] for a key the object does not own.
Create(obj, k) == [keys |-> Append(obj.keys, k), val |-> Append(obj.val, <<>>)]

ScanInit ==
    [scoreTiers |-> [t \in Range(TierLabels) |-> <<>>],
     detailedAnalysis |-> EmptyObject,
     seenAnswers |-> {},
     thrown |-> FALSE]

ScanStepCreatingFirst(st, query, detail) ==
    LET tiers == [st.scoreTiers EXCEPT
                     ![Classify(detail.relevance_score)] = SetAdd(@, query)]
        answerKey == AnswerKey(query, detail)
        st1 == [st EXCEPT !.scoreTiers = tiers,
                          !.detailedAnalysis =
                              IF Truthy(@, query) THEN @ ELSE Create(@, query)]
    IN IF answerKey \in st.seenAnswers THEN st1
       ELSE IF HasOwn(st1.detailedAnalysis, query)
            THEN [st1 EXCEPT
                     !.detailedAnalysis = Push(@, query, detail),
                     !.seenAnswers = @ \cup {answerKey}]
       ELSE [st1 EXCEPT !.thrown = TRUE]

\* One pass of the inner forEach callback for (summary.query, detail).
ScanStep(st, query, detail) ==
    LET tiers == [st.scoreTiers EXCEPT
                     ![Classify(detail.relevance_score)] = SetAdd(@, query)]
        answerKey == AnswerKey(query, detail)
        st1 == [st EXCEPT !.scoreTiers = tiers]
    IN IF answerKey \in st.seenAnswers THEN st1
       ELSE IF ~Truthy(st.detailedAnalysis, query)
            THEN [st1 EXCEPT
                     !.detailedAnalysis = Push(Create(@, query), query, detail),
                     !.seenAnswers = @ \cup {answerKey}]
       ELSE IF HasOwn(st.detailedAnalysis, query)
            THEN [st1 EXCEPT
                     !.detailedAnalysis = Push(@, query, detail),
                     !.seenAnswers = @ \cup {answerKey}]
       ELSE [st1 EXCEPT !.thrown = TRUE]   \* inherited value has no push: TypeError

RECURSIVE ScanFrom(_, _)
ScanFrom(pairs, st) ==
    IF pairs = <<>> \/ st.thrown THEN st
    ELSE ScanFrom(Tail(pairs), ScanStep(st, pairs[1].query, pairs[1].detail))

ScanSkippingFirst(pairs, st) ==
    IF pairs = <<>> THEN st ELSE ScanFrom(Tail(pairs), st)

RECURSIVE Scan(_, _)
\* The two nested forEach loops; a throw ends them.
Scan(pairs, st) ==
    IF pairs = <<>> \/ st.thrown THEN st
    ELSE Scan(Tail(pairs), ScanStep(st, pairs[1].query, pairs[1].detail))

RECURSIVE SortIndexKeys(_)
\* Array-index keys in ascending numeric order.
SortIndexKeys(ks) ==
    IF ks = {} THEN <<>>
    ELSE LET m == CHOOSE k \in ks : \A j \in ks : ~NumLess(j, k)
         IN <<m>> \o SortIndexKeys(ks \ {m})

\* for (const query in obj): array-index keys ascending, then the other own
\* keys in creation order.
ForInKeys(obj) ==
    SortIndexKeys({k \in Range(obj.keys) : IsArrayIndex(k)})
    \o SelectSeq(obj.keys, LAMBDA k : ~IsArrayIndex(k))

\* x || 'N/A' for a string-or-null x.
OrNA(x) == IF x = NullContent \/ x = <<>> THEN NA ELSE x

\* A row of a detail sub-table (id tags the source record; it is not printed).
PdfRow(ans) ==
    [id |-> ans.id,
     section |-> OrNA(ans.section_name),
     title |-> OrNA(ans.title),
     score |-> ToFixed4(ans.relevance_score),
     content |-> OrNA(Substring200(ans.content))]

\* The document of handleExportPdf: the tier table, then one sub-table a query.
PdfDocument(st) ==
    [summary |-> [i \in DOMAIN TierLabels |->
                     [tier |-> TierLabels[i],
                      queries |-> st.scoreTiers[TierLabels[i]]]],
     detail |-> LET ks == ForInKeys(st.detailedAnalysis)
                IN [i \in DOMAIN ks |->
                       LET answers ==
                               st.detailedAnalysis.val[KeyIndex(st.detailedAnalysis, ks[i])]
                       IN [query |-> ks[i],
                           body |-> [j \in DOMAIN answers |-> PdfRow(answers[j])]]]]

\* A row of the CSV export.
CsvRow(query, detail) ==
    [id |-> detail.id,
     Query |-> query,
     RelevanceScore |-> detail.relevance_score,
     Content |-> IF Substring200(detail.content) = NullContent
                 THEN <<>> ELSE Substring200(detail.content)]

\* result.data.flatMap(summary => summary.results.map(detail => ...))
CsvDocument(summaries) ==
    LET pairs == FlatPairs(summaries)
    IN [i \in DOMAIN pairs |-> CsvRow(pairs[i].query, pairs[i].detail)]

----------------------------------------------------------------------------
(* Backend (FastAPI service, not part of the front end sources).           *)

\* A Dayjs instant is a number of hours; a day has 24 of them.
StartOfDay(h) == h - (h % 24)

EndOfDay(h) == h - (h % 24) + 23

NoDate == -1

\* dateRange?.[0]?.startOf('day').toISOString()
StartDate(range) == IF range = <<>> THEN NoDate ELSE StartOfDay(range[1])

\* dateRange?.[1]?.endOf('day').toISOString()
EndDate(range) == IF range = <<>> THEN NoDate ELSE EndOfDay(range[2])

DateRanges == {<<>>, <<30, 60>>}

Windows == {<<StartDate(r), EndDate(r)>> : r \in DateRanges}

RECURSIVE FirstSeen(_)
\* The distinct queries of a record sequence, in order of first appearance.
FirstSeen(flat) ==
    IF flat = <<>> THEN <<>>
    ELSE LET init == FirstSeen(SubSeq(flat, 1, Len(flat) - 1))
             q == flat[Len(flat)].query
         IN IF \E i \in DOMAIN init : init[i] = q THEN init ELSE Append(init, q)

RECURSIVE SumScores(_)
SumScores(rows) ==
    IF rows = <<>> THEN 0 ELSE rows[1].relevance_score + SumScores(Tail(rows))

\* The mean of the rows' scores, as the fraction num / den.
MeanScore(rows) == [num |-> SumScores(rows), den |-> Len(rows)]

\* Group over the rows that repeat no earlier row's query, content and score.
GroupDroppingRepeats(flat) ==
    LET same(r, t) == /\ r.query = t.query
                      /\ r.content = t.content
                      /\ r.relevance_score = t.relevance_score
        idx == {i \in DOMAIN flat : \A j \in 1..(i - 1) : ~same(flat[j], flat[i])}
        kept == [k \in 1..Cardinality(idx) |->
                    flat[CHOOSE i \in idx : Cardinality({j \in idx : j < i}) = k - 1]]
        qs == FirstSeen(kept)
    IN [i \in DOMAIN qs |->
           LET results == SelectSeq(kept, LAMBDA r : r.query = qs[i])
           IN [query |-> qs[i],
               count |-> Len(results),
               avg_relevance_score |-> MeanScore(results),
               results |-> [j \in DOMAIN results |->
                               [id |-> results[j].id,
                                content |-> results[j].content,
                                relevance_score |-> results[j].relevance_score,
                                section_name |-> NullContent,
                                title |-> NullContent]]]]

\* Summaries of a sequence of stored rows: one per query, results in stored order.
Group(flat) ==
    LET qs == FirstSeen(flat)
    IN [i \in DOMAIN qs |->
           LET results == SelectSeq(flat, LAMBDA r : r.query = qs[i])
           IN [query |-> qs[i],
               count |-> Len(results),
               avg_relevance_score |-> MeanScore(results),
               results |-> [j \in DOMAIN results |->
                               [id |-> results[j].id,
                                content |-> results[j].content,
                                relevance_score |-> results[j].relevance_score,
                                section_name |-> NullContent,
                                title |-> NullContent]]]]

\* GET /api/v1/low-relevance-results answers 422 for a malformed window.
Rejects(req) == req.skip < 0 \/ req.limit <= 0

\* The body of a successful GET /api/v1/low-relevance-results.
GetResults(req) ==
    LET rows == Group(server[<<req.startDate, req.endDate>>])
    IN [data |-> SubSeq(rows, req.skip + 1, Min(req.skip + req.limit, Len(rows))),
        total |-> Len(rows)]

----------------------------------------------------------------------------
(* The page LowRelevanceAnalysis *)

InitialPageSize == 10

PageSizes == {10, 20}

NoError == "null"

Request(kind, skip, limit) ==
    [id |-> issued + 1, kind |-> kind, skip |-> skip, limit |-> limit,
     startDate |-> StartDate(dateRange'), endDate |-> EndDate(dateRange')]

\* if (loading && data.length === 0) the page renders only a spinner.
PageVisible == route = "low-relevance" /\ ~(loading /\ data = <<>>)

\* loadData up to its await, as run by the effect after a render.
LoadData ==
    /\ loading' = TRUE
    /\ inflight' = inflight \cup
           {Request("list", (pagination'.current - 1) * pagination'.pageSize,
                    pagination'.pageSize)}
    /\ issued' = issued + 1

\* handleDateChange, then the effect on [current, pageSize, dateRange].
HandleDateChange(dates) ==
    /\ PageVisible
    /\ issued < MaxRequests
    /\ dateRange' = dates
    /\ pagination' = [pagination EXCEPT !.current = 1]
    /\ IF dates # <<>> \/ dateRange # <<>> \/ pagination.current # 1
       THEN LoadData
       ELSE UNCHANGED <<loading, inflight, issued>>
    /\ UNCHANGED <<data, exportingCsv, exportingPdf, error, files, server>>
    /\ UNCHANGED others

\* The pages the table's pager offers for a total and a page size.
LastPage(total, pageSize) ==
    IF total = 0 THEN 1 ELSE (total + pageSize - 1) \div pageSize

\* handleTableChange, then the effect on [current, pageSize, dateRange].
HandleTableChange(current, pageSize) ==
    /\ PageVisible
    /\ issued < MaxRequests
    /\ current \in 1..LastPage(pagination.total, pageSize)
    /\ pagination' = [pagination EXCEPT !.current = current, !.pageSize = pageSize]
    /\ dateRange' = dateRange
    /\ IF current # pagination.current \/ pageSize # pagination.pageSize
       THEN LoadData
       ELSE UNCHANGED <<loading, inflight, issued>>
    /\ UNCHANGED <<data, exportingCsv, exportingPdf, error, files, server>>
    /\ UNCHANGED others

DedupedListResolve(r) ==
    /\ r \in inflight
    /\ r.kind = "list"
    /\ ~Rejects(r)
    /\ LET result == GetResults(r)
       IN /\ data' = [i \in DOMAIN result.data |->
                         [result.data[i] EXCEPT
                             !.results = LET st == Scan(FlatPairs(<<result.data[i]>>), ScanInit)
                                         IN IF st.detailedAnalysis.val = <<>> THEN <<>>
                                            ELSE st.detailedAnalysis.val[1]]]
          /\ pagination' = [pagination EXCEPT !.total = result.total]
    /\ loading' = FALSE
    /\ inflight' = inflight \ {r}
    /\ UNCHANGED <<exportingCsv, exportingPdf, error, dateRange, issued, files, server>>
    /\ UNCHANGED others

\* loadData after its await, the request fulfilled.
ListResolve(r) ==
    /\ r \in inflight
    /\ r.kind = "list"
    /\ ~Rejects(r)
    /\ LET result == GetResults(r)
       IN /\ data' = result.data
          /\ pagination' = [pagination EXCEPT !.total = result.total]
    /\ loading' = FALSE
    /\ inflight' = inflight \ {r}
    /\ UNCHANGED <<exportingCsv, exportingPdf, error, dateRange, issued, files, server>>
    /\ UNCHANGED others

\* loadData after its await, the request rejected (catch, finally).
ListReject(r) ==
    /\ r \in inflight
    /\ r.kind = "list"
    /\ error' = "Failed to load low relevance data"
    /\ loading' = FALSE
    /\ inflight' = inflight \ {r}
    /\ UNCHANGED <<data, exportingCsv, exportingPdf, dateRange, pagination, issued,
                   files, server>>
    /\ UNCHANGED others

\* The alert's onClose.
CloseError ==
    /\ PageVisible
    /\ error # NoError
    /\ error' = NoError
    /\ UNCHANGED <<data, loading, exportingCsv, exportingPdf, dateRange, pagination,
                   inflight, issued, files, server>>
    /\ UNCHANGED others

\* The Export CSV button accepts a click.
CanExportCsv == PageVisible /\ data # <<>> /\ ~exportingCsv

\* The Export PDF button accepts a click.
CanExportPdf == PageVisible /\ data # <<>> /\ ~exportingPdf

\* handleExportCsv up to its await.
HandleExportCsv ==
    /\ CanExportCsv
    /\ issued < MaxRequests
    /\ exportingCsv' = TRUE
    /\ dateRange' = dateRange
    /\ inflight' = inflight \cup {Request("csv", 0, pagination.total)}
    /\ issued' = issued + 1
    /\ UNCHANGED <<data, loading, exportingPdf, error, pagination, files, server>>
    /\ UNCHANGED others

\* handleExportCsv after its await: build and download, or catch; then finally.
CsvResolve(r, libraryThrows) ==
    /\ r \in inflight
    /\ r.kind = "csv"
    /\ ~Rejects(r)
    /\ LET result == GetResults(r)
       IN IF libraryThrows
          THEN /\ error' = "Failed to export data."
               /\ files' = files
          ELSE /\ files' = Append(files, [kind |-> "csv",
                                          allData |-> result.data,
                                          doc |-> CsvDocument(result.data)])
               /\ error' = error
    /\ exportingCsv' = FALSE
    /\ inflight' = inflight \ {r}
    /\ UNCHANGED <<data, loading, exportingPdf, dateRange, pagination, issued, server>>
    /\ UNCHANGED others

CsvRejectKeepingFlag(r) ==
    /\ r \in inflight
    /\ r.kind = "csv"
    /\ error' = "Failed to export data."
    /\ inflight' = inflight \ {r}
    /\ UNCHANGED <<data, loading, exportingCsv, exportingPdf, dateRange, pagination,
                   issued, files, server>>
    /\ UNCHANGED others

\* handleExportCsv after its await, the request rejected.
CsvReject(r) ==
    /\ r \in inflight
    /\ r.kind = "csv"
    /\ error' = "Failed to export data."
    /\ exportingCsv' = FALSE
    /\ inflight' = inflight \ {r}
    /\ UNCHANGED <<data, loading, exportingPdf, dateRange, pagination, issued,
                   files, server>>
    /\ UNCHANGED others

\* handleExportPdf up to its await.
HandleExportPdf ==
    /\ CanExportPdf
    /\ issued < MaxRequests
    /\ exportingPdf' = TRUE
    /\ dateRange' = dateRange
    /\ inflight' = inflight \cup {Request("pdf", 0, pagination.total)}
    /\ issued' = issued + 1
    /\ UNCHANGED <<data, loading, exportingCsv, error, pagination, files, server>>
    /\ UNCHANGED others

\* handleExportPdf after its await: scan, render and save, or catch; then finally.
PdfResolve(r, libraryThrows) ==
    /\ r \in inflight
    /\ r.kind = "pdf"
    /\ ~Rejects(r)
    /\ LET allData == GetResults(r)
           st == Scan(FlatPairs(allData.data), ScanInit)
       IN IF libraryThrows \/ st.thrown
          THEN /\ error' = "Failed to export PDF."
               /\ files' = files
          ELSE /\ files' = Append(files, [kind |-> "pdf",
                                          allData |-> allData.data,
                                          doc |-> PdfDocument(st)])
               /\ error' = error
    /\ exportingPdf' = FALSE
    /\ inflight' = inflight \ {r}
    /\ UNCHANGED <<data, loading, exportingCsv, dateRange, pagination, issued, server>>
    /\ UNCHANGED others

\* handleExportPdf after its await, the request rejected.
PdfReject(r) ==
    /\ r \in inflight
    /\ r.kind = "pdf"
    /\ error' = "Failed to export PDF."
    /\ exportingPdf' = FALSE
    /\ inflight' = inflight \ {r}
    /\ UNCHANGED <<data, loading, exportingCsv, dateRange, pagination, issued,
                   files, server>>
    /\ UNCHANGED others

\* The useState initial values of LowRelevanceAnalysis.
InitialState ==
    /\ data = <<>>
    /\ loading = TRUE
    /\ exportingCsv = FALSE
    /\ exportingPdf = FALSE
    /\ error = NoError
    /\ dateRange = <<>>
    /\ pagination = [current |-> 1, pageSize |-> InitialPageSize, total |-> 0]

\* The request of the first effect of LowRelevanceAnalysis.
FirstLoad ==
    [id |-> 1, kind |-> "list", skip |-> 0, limit |-> InitialPageSize,
     startDate |-> NoDate, endDate |-> NoDate]

----------------------------------------------------------------------------
(* The page NoResultAnalysis *)

NoResultLimit == 1000

\* The body of a successful GET /api/v1/no-result/summary.
GetSummary(req) ==
    LET rows == noResultServer[<<req.startDate, req.endDate>>]
    IN SubSeq(rows, 1, Min(req.limit, Len(rows)))

RECURSIVE SumCounts(_)
\* result.reduce((sum, item) => sum + item.count, 0)
SumCounts(rows) ==
    IF rows = <<>> THEN 0 ELSE rows[1].count + SumCounts(Tail(rows))

\* parseFloat((total / unique).toFixed(1)), in tenths (ties up).
AvgOccurrence(total, unique) == (20 * total + unique) \div (2 * unique)

\* The statistics loadData derives from a response.
Stats(result) ==
    [totalQueries |-> SumCounts(result),
     uniqueQueries |-> Len(result),
     avgOccurrence |-> IF Len(result) > 0
                       THEN AvgOccurrence(SumCounts(result), Len(result)) ELSE 0,
     topQueryCount |-> IF Len(result) > 0 THEN result[1].count ELSE 0]

\* The useState initial values of NoResultAnalysis.
NoResultInitialState ==
    [data |-> <<>>,
     stats |-> [totalQueries |-> 0, uniqueQueries |-> 0, avgOccurrence |-> 0,
                topQueryCount |-> 0],
     loading |-> TRUE,
     exportingCsv |-> FALSE,
     exportingPdf |-> FALSE,
     error |-> NoError,
     dateRange |-> <<>>]

\* The request of the first effect of NoResultAnalysis.
NoResultFirstLoad ==
    [id |-> 1, kind |-> "no-result", skip |-> 0, limit |-> NoResultLimit,
     startDate |-> NoDate, endDate |-> NoDate]

lowRelevance == <<data, loading, exportingCsv, exportingPdf, error, dateRange,
                  pagination, server>>

\* handleDateChange of NoResultAnalysis, then the effect on [dateRange].
NoResultDateChange(dates) ==
    /\ route = "no-result"
    /\ ~noResult.loading          \* the Spin wrapper takes no input while loading
    /\ issued < MaxRequests
    /\ IF dates # <<>> \/ noResult.dateRange # <<>>
       THEN /\ noResult' = [noResult EXCEPT !.dateRange = dates, !.loading = TRUE]
            /\ inflight' = inflight \cup
                   {[id |-> issued + 1, kind |-> "no-result", skip |-> 0,
                     limit |-> NoResultLimit,
                     startDate |-> StartDate(dates), endDate |-> EndDate(dates)]}
            /\ issued' = issued + 1
       ELSE UNCHANGED <<noResult, inflight, issued>>
    /\ UNCHANGED <<lowRelevance, files, route, noResultServer, site>>

\* loadData of NoResultAnalysis deriving statistics only from a response that
\* has rows.
NoResultLoadResolveKeepingStats(r) ==
    /\ route = "no-result"
    /\ r \in inflight
    /\ r.kind = "no-result"
    /\ LET result == GetSummary(r)
       IN noResult' = [noResult EXCEPT
                          !.data = result,
                          !.stats = IF result = <<>> THEN @ ELSE Stats(result),
                          !.loading = FALSE]
    /\ inflight' = inflight \ {r}
    /\ UNCHANGED <<lowRelevance, issued, files, route, noResultServer, site>>

\* loadData of NoResultAnalysis after its await, the request fulfilled.
NoResultLoadResolve(r) ==
    /\ route = "no-result"
    /\ r \in inflight
    /\ r.kind = "no-result"
    /\ LET result == GetSummary(r)
       IN noResult' = [noResult EXCEPT !.data = result, !.stats = Stats(result),
                                       !.loading = FALSE]
    /\ inflight' = inflight \ {r}
    /\ UNCHANGED <<lowRelevance, issued, files, route, noResultServer, site>>

\* loadData of NoResultAnalysis after its await, the request rejected.
NoResultLoadReject(r) ==
    /\ route = "no-result"
    /\ r \in inflight
    /\ r.kind = "no-result"
    /\ noResult' = [noResult EXCEPT !.error = "Failed to load no-result data",
                                    !.loading = FALSE]
    /\ inflight' = inflight \ {r}
    /\ UNCHANGED <<lowRelevance, issued, files, route, noResultServer, site>>

\* The alert's onClose of NoResultAnalysis.
NoResultCloseError ==
    /\ route = "no-result"
    /\ noResult.error # NoError
    /\ noResult' = [noResult EXCEPT !.error = NoError]
    /\ UNCHANGED <<lowRelevance, inflight, issued, files, route, noResultServer, site>>

\* An export button of NoResultAnalysis accepts a click.
NoResultCanExport(flag) ==
    /\ route = "no-result"
    /\ ~noResult.loading
    /\ noResult.data # <<>>
    /\ ~flag

\* dayjs(item.last_occurred_at).format('YYYY-MM-DD HH:mm:ss'): day and hour.
FormatInstant(h) == <<h \div 24, h % 24>>

\* The rows both exports of NoResultAnalysis print.
NoResultDocument(rows) ==
    [i \in DOMAIN rows |->
        [Query |-> rows[i].query, Count |-> rows[i].count,
         LastOccurredAt |-> FormatInstant(rows[i].last_occurred_at)]]

\* handleExportCsv of NoResultAnalysis: it awaits nothing and runs to its end.
NoResultExportCsv(libraryThrows) ==
    /\ NoResultCanExport(noResult.exportingCsv)
    /\ Len(files) < MaxFiles
    /\ IF libraryThrows
       THEN /\ noResult' = [noResult EXCEPT !.error = "Failed to export CSV data.",
                                            !.exportingCsv = FALSE]
            /\ files' = files
       ELSE /\ noResult' = [noResult EXCEPT !.exportingCsv = FALSE]
            /\ files' = Append(files, [kind |-> "no-result-csv",
                                       allData |-> noResult.data,
                                       doc |-> NoResultDocument(noResult.data)])
    /\ UNCHANGED <<lowRelevance, inflight, issued, route, noResultServer, site>>

\* handleExportPdf of NoResultAnalysis: it awaits nothing and runs to its end.
NoResultExportPdf(libraryThrows) ==
    /\ NoResultCanExport(noResult.exportingPdf)
    /\ Len(files) < MaxFiles
    /\ IF libraryThrows
       THEN /\ noResult' = [noResult EXCEPT !.error = "Failed to export PDF.",
                                            !.exportingPdf = FALSE]
            /\ files' = files
       ELSE /\ noResult' = [noResult EXCEPT !.exportingPdf = FALSE]
            /\ files' = Append(files, [kind |-> "no-result-pdf",
                                       allData |-> noResult.data,
                                       doc |-> NoResultDocument(noResult.data)])
    /\ UNCHANGED <<lowRelevance, inflight, issued, route, noResultServer, site>>

----------------------------------------------------------------------------
(* Stored rows *)

Str_a == <<"a">>

Str_b == <<"b">>

Str_c == <<"c">>

\* Two contents that agree on their first 200 characters only.
LongX == [i \in 1..(TruncLen + 1) |-> "x"]

LongY == [i \in 1..(TruncLen + 1) |-> IF i > TruncLen THEN "y" ELSE "x"]

Row(query, content, score) ==
    [query |-> query, content |-> content, relevance_score |-> score]

\* Rows that differ in their strings.
StringRows ==
    { Row(<<"a", "|", "b">>, Str_c, 50000),
      Row(Str_a, <<"b", "|", "c">>, 50000),
      Row(Str_a, NullContent, 50000),
      Row(Str_a, Undefined, 50000),
      Row(Str_a, LongX, 50001),
      Row(Str_a, LongY, 50002),
      Row(<<"c","o","n","s","t","r","u","c","t","o","r">>, Str_c, 50000),
      Row(<<"2">>, Str_c, 30000),
      Row(<<"1">>, Str_c, 30000) }

\* Rows that differ in their scores.
ScoreRows ==
    { Row(Str_a, Str_c, s) : s \in {0, 39999, 40000, 50000, 59996, 60000, 100000} }
    \cup { Row(Str_b, Str_c, s) : s \in {40000, 60000} }

\* Rows of two queries, among them the scores 0.65, 0.55 and 0.2.
AggregateRows ==
    { Row(Str_a, Str_c, 65000), Row(Str_a, Str_c, 55000),
      Row(Str_b, Str_c, 20000), Row(Str_b, Str_c, 55000) }

SeqsUpTo(S, n) == UNION {[1..k -> S] : k \in 1..n}

WithIds(rows) ==
    [i \in DOMAIN rows |->
        [id |-> i, query |-> rows[i].query, content |-> rows[i].content,
         relevance_score |-> rows[i].relevance_score]]

\* Twelve queries of one row each; the last query has the same row stored twice.
ListedRows ==
    WithIds([i \in 1..13 |->
                Row(<<"q", Digits[(Min(i, 12) \div 10) + 1], Digits[(Min(i, 12) % 10) + 1]>>,
                    Str_c, 30000)])

----------------------------------------------------------------------------
(* The api client (services/api.ts) *)

NoToken == "null"

\* The access tokens the backend hands out; "t1" is one of an earlier session.
Tokens == {"t2"}

\* The request interceptor: the Authorization header of a request, <<>> for none.
Authorization(token) == IF token # NoToken THEN <<"Bearer", token>> ELSE <<>>

\* An undefined string parameter: axios leaves it out of the query string.
UndefinedParam == <<"undefined">>

\* An undefined numeric parameter.
NotSent == NoDate

\* POST for login and createUser, GET for every other call.
Method(call) == IF call \in {"login", "createUser"} THEN "POST" ELSE "GET"

\* A request of the api client, no parameter set.  With it goes what the
\* function awaiting it holds: mount is its page component (0: the
\* AuthProvider, whose function caller awaits), pageSize the pagination.pageSize
\* of its closure, kept where the function goes on to use it.
ApiCall(id, call, token, mount) ==
    [id |-> id, call |-> call, method |-> Method(call), caller |-> "page",
     pageSize |-> NotSent,
     skip |-> NotSent, limit |-> NotSent, search |-> UndefinedParam,
     liked |-> "undefined", startDate |-> NoDate, endDate |-> NoDate,
     authorization |-> Authorization(token), mount |-> mount]

----------------------------------------------------------------------------
(* Backend of the api client's calls *)

\* t occurs in s.
Contains(s, t) ==
    \E i \in 0..(Len(s) - Len(t)) : SubSeq(s, i + 1, i + Len(t)) = t

\* The rows skip + 1 .. skip + limit of a sequence.
Page(rows, skip, limit) == SubSeq(rows, skip + 1, Min(skip + limit, Len(rows)))

\* Fifteen QA logs, twelve of them asking "a".
QaRows == [i \in 1..15 |-> [id |-> i, query |-> IF i <= 12 THEN Str_a ELSE Str_b]]

\* Fifteen feedback entries, ten liked, ten created within the days 1 and 2.
FeedbackRows ==
    [i \in 1..15 |-> [query |-> Str_a, liked |-> (i % 3 # 0), created_at |-> 4 * i]]

\* Twelve users.
UserRows == [i \in 1..12 |-> [id |-> i]]

FullStore == [qaLogs |-> QaRows, feedback |-> FeedbackRows, users |-> UserRows]

EmptyStore == [qaLogs |-> <<>>, feedback |-> <<>>, users |-> SubSeq(UserRows, 1, 1)]

\* The rows the backend was set up with.
Stored == IF db.store = "full" THEN FullStore ELSE EmptyStore

\* The users in the backend.
StoredUsers == [i \in 1..(Len(Stored.users) + db.created) |-> [id |-> i]]

\* The body of a successful GET /api/v1/qa-logs; an empty search is no filter.
GetLogs(req) ==
    LET rows == IF req.search \in {UndefinedParam, <<>>} THEN Stored.qaLogs
                ELSE SelectSeq(Stored.qaLogs, LAMBDA l : Contains(l.query, req.search))
    IN [data |-> Page(rows, req.skip, req.limit), total |-> Len(rows)]

\* The body of a successful feedback list request.
GetFeedbacks(req) ==
    LET rows == SelectSeq(Stored.feedback, LAMBDA f :
                    /\ req.liked = "undefined" \/ (req.liked = "true") = f.liked
                    /\ req.startDate = NoDate \/ req.startDate <= f.created_at
                    /\ req.endDate = NoDate \/ f.created_at <= req.endDate)
    IN [data |-> Page(rows, req.skip, req.limit), total |-> Len(rows)]

\* The body of a successful GET /api/v1/users: an array of users.
GetUsers(req) == Page(StoredUsers, req.skip, req.limit)

RecentFeedbackCount == 5

\* The body of a successful dashboard summary request.
GetDashboardSummary ==
    LET liked == SelectSeq(Stored.feedback, LAMBDA f : f.liked)
    IN [total_feedback |-> Len(Stored.feedback),
        positive_feedback_count |-> Len(liked),
        negative_feedback_count |-> Len(Stored.feedback) - Len(liked),
        recent_feedback |-> Page(Stored.feedback, 0, RecentFeedbackCount)]

\* The body of a successful GET /api/v1/me: the user the token was issued
\* to.  The token of the earlier session is an ordinary user's, the token a
\* login hands out an administrator's.
GetCurrentUser(req) == [is_admin |-> req.authorization = <<"Bearer", "t2">>]

\* The backend answers 422 to a malformed window.
RejectsWindow(req) ==
    req.call \in {"getLogs", "getFeedbacks", "getUsers"} /\ (req.skip < 0 \/ req.limit <= 0)

----------------------------------------------------------------------------
(* The pages behind the api client: initial states and first requests *)

\* The variables of the two analysis pages, which the site's handlers leave alone.
analysis == <<data, loading, exportingCsv, exportingPdf, error, dateRange,
              pagination, inflight, files, server, noResult, noResultServer>>

SitePages == {"dashboard", "feedback", "qa-logs", "users"}

\* x || d for a number x.
OrDefault(x, d) == IF x = 0 THEN d ELSE x

InitialPagination == [current |-> 1, pageSize |-> InitialPageSize, total |-> 0]

\* The useState initial values of QALogs.
QaLogsInitial ==
    [data |-> <<>>, loading |-> TRUE, error |-> NoError, searchText |-> <<>>,
     pagination |-> InitialPagination]

\* The useState initial values of FeedbackManagement.
FeedbackInitial ==
    [data |-> <<>>, loading |-> TRUE, error |-> NoError, filter |-> "all",
     dateRange |-> <<>>, pagination |-> InitialPagination]

\* The useState initial values of UserManagement.
UsersInitial ==
    [users |-> <<>>, loading |-> TRUE, error |-> NoError, isModalVisible |-> FALSE,
     pagination |-> InitialPagination]

\* The useState initial values of Dashboard (summary <<>> for null), and the
\* values the two promises of its Promise.all have been fulfilled with.
DashboardInitial ==
    [summary |-> <<>>, noResultData |-> <<>>, loading |-> TRUE, error |-> NoError,
     fulfilled |-> [getDashboardSummary |-> <<>>, getSummary |-> <<>>]]

\* loadQALogs passing the search text on as it is.
QaLogsRequestSendingEmpty(id, page, pageSize, search, token, mount) ==
    [ApiCall(id, "getLogs", token, mount) EXCEPT
        !.skip = (OrDefault(page, 1) - 1) * OrDefault(pageSize, 20),
        !.limit = pageSize,
        !.search = search]

\* The request of loadQALogs.
QaLogsRequest(id, page, pageSize, search, token, mount) ==
    [ApiCall(id, "getLogs", token, mount) EXCEPT
        !.skip = (OrDefault(page, 1) - 1) * OrDefault(pageSize, 20),
        !.limit = pageSize,
        !.search = IF search = <<>> THEN UndefinedParam ELSE search]

\* The request of fetchData of FeedbackManagement.
FeedbackRequest(id, page, pageSize, currentFilter, range, token, mount) ==
    [ApiCall(id, "getFeedbacks", token, mount) EXCEPT
        !.skip = (OrDefault(page, 1) - 1) * OrDefault(pageSize, 10),
        !.limit = pageSize,
        !.liked = IF currentFilter = "all" THEN "undefined"
                  ELSE IF currentFilter = "liked" THEN "true" ELSE "false",
        !.startDate = StartDate(range),
        !.endDate = EndDate(range)]

\* The request of fetchUsers.
UsersRequest(id, page, pageSize, token, mount) ==
    [ApiCall(id, "getUsers", token, mount) EXCEPT
        !.skip = (page - 1) * pageSize, !.limit = pageSize]

DashboardLimit == 10

\* The requests of the first effect of a page.
FirstRequests(to, id, token) ==
    CASE to = "qa-logs" ->
            {QaLogsRequest(id, 1, InitialPageSize, <<>>, token, id)}
      [] to = "feedback" ->
            {FeedbackRequest(id, 1, InitialPageSize, "all", <<>>, token, id)}
      [] to = "users" ->
            {UsersRequest(id, 1, InitialPageSize, token, id)}
      [] to = "dashboard" ->
            {ApiCall(id, "getDashboardSummary", token, id),
             [ApiCall(id + 1, "getSummary", token, id) EXCEPT !.limit = DashboardLimit]}
      [] OTHER -> {}

\* Every page component in its initial state.
PagesInitial ==
    /\ qaLogs' = QaLogsInitial
    /\ feedbackManagement' = FeedbackInitial
    /\ userManagement' = UsersInitial
    /\ dashboard' = DashboardInitial

\* The router renders the page of a route, the responses w still awaited:
\* the page's component is created and its first effect runs.
MountPage(to, token, w) ==
    LET calls == FirstRequests(to, issued + 1, token)
    IN /\ issued + Cardinality(calls) <= MaxCalls
       /\ route' = to
       /\ PagesInitial
       /\ mounted' = IF calls = {} THEN 0 ELSE issued + 1
       /\ wire' = w \cup calls
       /\ issued' = issued + Cardinality(calls)

\* window.location.href = "/login": the application is loaded anew, with no
\* token in sessionStorage; requests under way are abandoned.
Reload ==
    /\ route' = "login"
    /\ auth' = [isAuthenticated |-> FALSE, isLoading |-> FALSE, userInfo |-> <<>>]
    /\ PagesInitial
    /\ mounted' = 0
    /\ wire' = {}
    /\ issued' = issued

----------------------------------------------------------------------------
(* The AuthProvider and the response interceptor *)

pages == <<qaLogs, feedbackManagement, userManagement, dashboard>>

\* A response with data is given only to a request that carries a token.
Authorized(r) == r.authorization # <<>>

\* checkUserStatus after its await, the user returned: the children render.
CheckUserStatusResolve(r) ==
    /\ r \in wire
    /\ r.call = "getCurrentUser" /\ r.caller = "checkUserStatus"
    /\ Authorized(r)
    /\ auth' = [isAuthenticated |-> TRUE, isLoading |-> FALSE,
                userInfo |-> <<GetCurrentUser(r)>>]
    /\ IF route \in SitePages
       THEN MountPage(route, authToken, wire \ {r})
       ELSE /\ wire' = wire \ {r}
            /\ UNCHANGED <<route, issued, mounted, pages>>
    /\ UNCHANGED <<authToken, sessionStorage, db, analysis>>

\* checkUserStatus after its await, the request failed with another status
\* than 401: getCurrentUser returns null and the protected route redirects.
CheckUserStatusFail(r) ==
    /\ r \in wire
    /\ r.call = "getCurrentUser" /\ r.caller = "checkUserStatus"
    /\ auth' = [isAuthenticated |-> FALSE, isLoading |-> FALSE, userInfo |-> <<>>]
    /\ route' = "login"
    /\ wire' = wire \ {r}
    /\ UNCHANGED <<authToken, sessionStorage, issued, mounted, pages, db, analysis>>

\* The response interceptor forgetting the token in memory only.
UnauthorizedKeepingStorage(r) ==
    /\ r \in wire
    /\ r.call # "login"
    /\ authToken' = NoToken
    /\ sessionStorage' = sessionStorage
    /\ IF route # "login"
       THEN Reload
       ELSE /\ wire' = wire \ {r}
            /\ auth' = IF r.caller = "checkUserStatus"
                       THEN [isAuthenticated |-> FALSE, isLoading |-> FALSE, userInfo |-> <<>>]
                       ELSE auth
            /\ UNCHANGED <<route, issued, mounted, pages>>
    /\ UNCHANGED <<db, analysis>>

\* The response interceptor on a response of status 401 (the login call
\* accepts the status 401 and never comes here).
Unauthorized(r) ==
    /\ r \in wire
    /\ r.call # "login"
    /\ authToken' = NoToken
    /\ sessionStorage' = NoToken
    /\ IF route # "login"
       THEN Reload
       ELSE /\ wire' = wire \ {r}
            /\ auth' = IF r.caller = "checkUserStatus"
                       THEN [isAuthenticated |-> FALSE, isLoading |-> FALSE, userInfo |-> <<>>]
                       ELSE auth
            /\ UNCHANGED <<route, issued, mounted, pages>>
    /\ UNCHANGED <<db, analysis>>

\* login of the AuthProvider up to its first await.
LoginSubmit ==
    /\ route = "login"
    /\ ~auth.isLoading
    /\ ~auth.isAuthenticated
    /\ issued < MaxCalls
    /\ wire' = wire \cup
           {[ApiCall(issued + 1, "login", authToken, 0) EXCEPT !.caller = "login"]}
    /\ issued' = issued + 1
    /\ UNCHANGED <<authToken, sessionStorage, auth, route, mounted, pages, db, analysis>>

\* authAPI.login after its await, the body a success with an access token;
\* login of the AuthProvider goes on to getCurrentUser.
LoginResolve(r, token) ==
    /\ r \in wire
    /\ r.call = "login"
    /\ issued < MaxCalls
    /\ authToken' = token
    /\ sessionStorage' = token
    /\ wire' = (wire \ {r}) \cup
           {[ApiCall(issued + 1, "getCurrentUser", token, 0) EXCEPT !.caller = "login"]}
    /\ issued' = issued + 1
    /\ UNCHANGED <<auth, route, mounted, pages, db, analysis>>

\* authAPI.login after its await, the status 401 and the body an error.
LoginRefused(r) ==
    /\ r \in wire
    /\ r.call = "login"
    /\ wire' = wire \ {r}
    /\ UNCHANGED <<authToken, sessionStorage, auth, route, issued, mounted, pages, db,
                   analysis>>

\* authAPI.login after its await, the request failed otherwise.
LoginFail(r) ==
    /\ r \in wire
    /\ r.call = "login"
    /\ wire' = wire \ {r}
    /\ UNCHANGED <<authToken, sessionStorage, auth, route, issued, mounted, pages, db,
                   analysis>>

\* login of the AuthProvider after its second await, the user returned.
LoginUserResolve(r) ==
    /\ r \in wire
    /\ r.call = "getCurrentUser" /\ r.caller = "login"
    /\ Authorized(r)
    /\ auth' = [auth EXCEPT !.isAuthenticated = TRUE,
                            !.userInfo = <<GetCurrentUser(r)>>]
    /\ wire' = wire \ {r}
    /\ UNCHANGED <<authToken, sessionStorage, route, issued, mounted, pages, db, analysis>>

\* login of the AuthProvider after its second await, the request failed with
\* another status than 401: getCurrentUser returns null.
LoginUserFail(r) ==
    /\ r \in wire
    /\ r.call = "getCurrentUser" /\ r.caller = "login"
    /\ wire' = wire \ {r}
    /\ UNCHANGED <<authToken, sessionStorage, auth, route, issued, mounted, pages, db,
                   analysis>>

\* logout forgetting the token in memory only.
LogoutKeepingStorage ==
    /\ route \in SitePages
    /\ auth.isAuthenticated
    /\ authToken' = NoToken
    /\ sessionStorage' = sessionStorage
    /\ auth' = [auth EXCEPT !.isAuthenticated = FALSE, !.userInfo = <<>>]
    /\ route' = "login"
    /\ PagesInitial
    /\ mounted' = 0
    /\ UNCHANGED <<wire, issued, db, analysis>>

\* logout of the AuthProvider; the protected route redirects to /login.
Logout ==
    /\ route \in SitePages
    /\ auth.isAuthenticated
    /\ authToken' = NoToken
    /\ sessionStorage' = NoToken
    /\ auth' = [auth EXCEPT !.isAuthenticated = FALSE, !.userInfo = <<>>]
    /\ route' = "login"
    /\ PagesInitial
    /\ mounted' = 0
    /\ UNCHANGED <<wire, issued, db, analysis>>

\* The authenticated user opens another of the four pages.
Navigate(to) ==
    /\ route \in SitePages \cup {"login"}
    /\ auth.isAuthenticated
    /\ ~auth.isLoading
    /\ to \in SitePages \ {route}
    /\ MountPage(to, authToken, wire)
    /\ UNCHANGED <<authToken, sessionStorage, auth, db, analysis>>

----------------------------------------------------------------------------
(* The page QALogs *)

SearchTexts == {<<>>, Str_a, <<"z">>}

\* Every site handler below leaves these alone.
session == <<authToken, sessionStorage, auth, route, mounted>>

\* if (loading && data.length === 0) the page renders only a spinner.
QaLogsVisible ==
    route = "qa-logs" /\ mounted # 0 /\ ~(qaLogs.loading /\ qaLogs.data = <<>>)

\* loadQALogs up to its await, as run by the effect after a render.
LoadQALogs ==
    /\ issued < MaxCalls
    /\ wire' = wire \cup
           {QaLogsRequest(issued + 1, qaLogs'.pagination.current,
                          qaLogs'.pagination.pageSize, qaLogs'.searchText,
                          authToken, mounted)}
    /\ issued' = issued + 1

\* handleSearch setting the search text only, then the effect.
QaLogsHandleSearchKeepingPage(value) ==
    /\ QaLogsVisible
    /\ IF value # qaLogs.searchText
       THEN /\ qaLogs' = [qaLogs EXCEPT !.searchText = value, !.loading = TRUE]
            /\ LoadQALogs
       ELSE UNCHANGED <<qaLogs, wire, issued>>
    /\ UNCHANGED <<session, feedbackManagement, userManagement, dashboard, db, analysis>>

\* handleSearch, then the effect on [current, pageSize, searchText].
QaLogsHandleSearch(value) ==
    /\ QaLogsVisible
    /\ IF value # qaLogs.searchText \/ qaLogs.pagination.current # 1
       THEN /\ qaLogs' = [qaLogs EXCEPT !.searchText = value,
                                        !.pagination.current = 1,
                                        !.loading = TRUE]
            /\ LoadQALogs
       ELSE UNCHANGED <<qaLogs, wire, issued>>
    /\ UNCHANGED <<session, feedbackManagement, userManagement, dashboard, db, analysis>>

\* handleTableChange of QALogs (the pager lies under the table's spinner while
\* loading), then the effect on [current, pageSize, searchText].
QaLogsHandleTableChange(current, pageSize) ==
    /\ QaLogsVisible
    /\ ~qaLogs.loading
    /\ current \in 1..LastPage(qaLogs.pagination.total, pageSize)
    /\ IF current # qaLogs.pagination.current \/ pageSize # qaLogs.pagination.pageSize
       THEN /\ qaLogs' = [qaLogs EXCEPT !.pagination.current = current,
                                        !.pagination.pageSize = pageSize,
                                        !.loading = TRUE]
            /\ LoadQALogs
       ELSE UNCHANGED <<qaLogs, wire, issued>>
    /\ UNCHANGED <<session, feedbackManagement, userManagement, dashboard, db, analysis>>

\* loadQALogs after its await, the request fulfilled.
QaLogsResolve(r) ==
    /\ r \in wire
    /\ r.call = "getLogs" /\ r.mount = mounted
    /\ Authorized(r) /\ ~RejectsWindow(r)
    /\ LET response == GetLogs(r)
       IN qaLogs' = [qaLogs EXCEPT !.data = response.data,
                                   !.pagination.total = response.total,
                                   !.loading = FALSE]
    /\ wire' = wire \ {r}
    /\ UNCHANGED <<session, issued, feedbackManagement, userManagement, dashboard, db,
                   analysis>>

\* loadQALogs calling itself again from its catch.
QaLogsFailRetrying(r) ==
    /\ r \in wire
    /\ r.call = "getLogs" /\ r.mount = mounted
    /\ qaLogs' = [qaLogs EXCEPT !.error = "Failed to load QA logs data",
                                !.loading = issued < MaxCalls]
    /\ wire' = IF issued < MaxCalls
               THEN (wire \ {r}) \cup {[r EXCEPT !.id = issued + 1]}
               ELSE wire \ {r}
    /\ issued' = IF issued < MaxCalls THEN issued + 1 ELSE issued
    /\ UNCHANGED <<session, feedbackManagement, userManagement, dashboard, db, analysis>>

\* loadQALogs after its await, the request failed with another status than 401.
QaLogsFail(r) ==
    /\ r \in wire
    /\ r.call = "getLogs" /\ r.mount = mounted
    /\ qaLogs' = [qaLogs EXCEPT !.error = "Failed to load QA logs data",
                                !.loading = FALSE]
    /\ wire' = wire \ {r}
    /\ UNCHANGED <<session, issued, feedbackManagement, userManagement, dashboard, db,
                   analysis>>

\* The alert's onClose of QALogs.
QaLogsCloseError ==
    /\ QaLogsVisible
    /\ qaLogs.error # NoError
    /\ qaLogs' = [qaLogs EXCEPT !.error = NoError]
    /\ UNCHANGED <<session, wire, issued, feedbackManagement, userManagement, dashboard,
                   db, analysis>>

----------------------------------------------------------------------------
(* The page FeedbackManagement *)

Filters == {"all", "liked", "disliked"}

FeedbackVisible == route = "feedback" /\ mounted # 0

\* The effect on [filter, current, pageSize, dateRange]: fetchData up to its await.
FetchData ==
    /\ issued < MaxCalls
    /\ wire' = wire \cup
           {FeedbackRequest(issued + 1, feedbackManagement'.pagination.current,
                            feedbackManagement'.pagination.pageSize,
                            feedbackManagement'.filter, feedbackManagement'.dateRange,
                            authToken, mounted)}
    /\ issued' = issued + 1

\* handleFilterChange, then the effect.
FeedbackHandleFilterChange(newFilter) ==
    /\ FeedbackVisible
    /\ IF newFilter # feedbackManagement.filter
          \/ feedbackManagement.pagination.current # 1
       THEN /\ feedbackManagement' =
                   [feedbackManagement EXCEPT !.filter = newFilter,
                                              !.pagination.current = 1,
                                              !.loading = TRUE]
            /\ FetchData
       ELSE UNCHANGED <<feedbackManagement, wire, issued>>
    /\ UNCHANGED <<session, qaLogs, userManagement, dashboard, db, analysis>>

\* handleDateChange of FeedbackManagement, then the effect (a range picked is
\* a new array, whatever its dates).
FeedbackHandleDateChange(dates) ==
    /\ FeedbackVisible
    /\ IF dates # <<>> \/ feedbackManagement.dateRange # <<>>
          \/ feedbackManagement.pagination.current # 1
       THEN /\ feedbackManagement' =
                   [feedbackManagement EXCEPT !.dateRange = dates,
                                              !.pagination.current = 1,
                                              !.loading = TRUE]
            /\ FetchData
       ELSE UNCHANGED <<feedbackManagement, wire, issued>>
    /\ UNCHANGED <<session, qaLogs, userManagement, dashboard, db, analysis>>

\* handleTableChange of FeedbackManagement, then the effect.
FeedbackHandleTableChange(current, pageSize) ==
    /\ FeedbackVisible
    /\ ~feedbackManagement.loading
    /\ current \in 1..LastPage(feedbackManagement.pagination.total, pageSize)
    /\ IF current # feedbackManagement.pagination.current
          \/ pageSize # feedbackManagement.pagination.pageSize
       THEN /\ feedbackManagement' =
                   [feedbackManagement EXCEPT !.pagination.current = current,
                                              !.pagination.pageSize = pageSize,
                                              !.loading = TRUE]
            /\ FetchData
       ELSE UNCHANGED <<feedbackManagement, wire, issued>>
    /\ UNCHANGED <<session, qaLogs, userManagement, dashboard, db, analysis>>

\* fetchData after its await, the request fulfilled.
FeedbackResolve(r) ==
    /\ r \in wire
    /\ r.call = "getFeedbacks" /\ r.mount = mounted
    /\ Authorized(r) /\ ~RejectsWindow(r)
    /\ LET response == GetFeedbacks(r)
       IN feedbackManagement' =
              [feedbackManagement EXCEPT !.data = response.data,
                                         !.pagination.total = response.total,
                                         !.loading = FALSE]
    /\ wire' = wire \ {r}
    /\ UNCHANGED <<session, issued, qaLogs, userManagement, dashboard, db, analysis>>

\* fetchData after its await, the request failed with another status than 401.
FeedbackFail(r) ==
    /\ r \in wire
    /\ r.call = "getFeedbacks" /\ r.mount = mounted
    /\ feedbackManagement' =
           [feedbackManagement EXCEPT !.error = "Failed to load feedback data",
                                      !.loading = FALSE]
    /\ wire' = wire \ {r}
    /\ UNCHANGED <<session, issued, qaLogs, userManagement, dashboard, db, analysis>>

\* The alert's onClose of FeedbackManagement.
FeedbackCloseError ==
    /\ FeedbackVisible
    /\ feedbackManagement.error # NoError
    /\ feedbackManagement' = [feedbackManagement EXCEPT !.error = NoError]
    /\ UNCHANGED <<session, wire, issued, qaLogs, userManagement, dashboard, db, analysis>>

----------------------------------------------------------------------------
(* The page UserManagement *)

\* if (loading && users.length === 0) the page renders only a spinner.
UsersVisible ==
    route = "users" /\ mounted # 0
    /\ ~(userManagement.loading /\ userManagement.users = <<>>)

\* handleTableChange of UserManagement (not under the modal's mask nor the
\* table's spinner), then the effect on [current, pageSize]: fetchUsers().
UsersHandleTableChange(current, pageSize) ==
    /\ UsersVisible
    /\ ~userManagement.loading
    /\ ~userManagement.isModalVisible
    /\ current \in 1..LastPage(userManagement.pagination.total, pageSize)
    /\ IF current # userManagement.pagination.current
          \/ pageSize # userManagement.pagination.pageSize
       THEN /\ issued < MaxCalls
            /\ userManagement' =
                   [userManagement EXCEPT !.pagination.current = current,
                                          !.pagination.pageSize = pageSize,
                                          !.loading = TRUE]
            /\ wire' = wire \cup
                   {UsersRequest(issued + 1, current, pageSize, authToken, mounted)}
            /\ issued' = issued + 1
       ELSE UNCHANGED <<userManagement, wire, issued>>
    /\ UNCHANGED <<session, qaLogs, feedbackManagement, dashboard, db, analysis>>

\* The total fetchUsers infers from a page of users.
InferredTotal(skip, pageSize, result) ==
    IF Len(result) < pageSize THEN skip + Len(result) ELSE skip + Len(result) + 10

\* fetchUsers after its await, the request fulfilled.
UsersResolve(r) ==
    /\ r \in wire
    /\ r.call = "getUsers" /\ r.mount = mounted
    /\ Authorized(r) /\ ~RejectsWindow(r)
    /\ LET result == GetUsers(r)
       IN userManagement' =
              [userManagement EXCEPT
                  !.users = result,
                  !.pagination.total = InferredTotal(r.skip, r.limit, result),
                  !.loading = FALSE]
    /\ wire' = wire \ {r}
    /\ UNCHANGED <<session, issued, qaLogs, feedbackManagement, dashboard, db, analysis>>

\* fetchUsers after its await, the request failed with another status than 401.
UsersFail(r) ==
    /\ r \in wire
    /\ r.call = "getUsers" /\ r.mount = mounted
    /\ userManagement' = [userManagement EXCEPT !.error = "Failed to load users.",
                                                !.loading = FALSE]
    /\ wire' = wire \ {r}
    /\ UNCHANGED <<session, issued, qaLogs, feedbackManagement, dashboard, db, analysis>>

\* The alert's onClose of UserManagement.
UsersCloseError ==
    /\ UsersVisible
    /\ ~userManagement.isModalVisible
    /\ userManagement.error # NoError
    /\ userManagement' = [userManagement EXCEPT !.error = NoError]
    /\ UNCHANGED <<session, wire, issued, qaLogs, feedbackManagement, dashboard, db,
                   analysis>>

\* showModal.
UsersShowModal ==
    /\ UsersVisible
    /\ ~userManagement.isModalVisible
    /\ userManagement' = [userManagement EXCEPT !.isModalVisible = TRUE]
    /\ UNCHANGED <<session, wire, issued, qaLogs, feedbackManagement, dashboard, db,
                   analysis>>

\* handleCancel.
UsersHandleCancel ==
    /\ UsersVisible
    /\ userManagement.isModalVisible
    /\ userManagement' = [userManagement EXCEPT !.isModalVisible = FALSE]
    /\ UNCHANGED <<session, wire, issued, qaLogs, feedbackManagement, dashboard, db,
                   analysis>>

\* handleCreate up to its await: the form of the modal is submitted.
UsersHandleCreate ==
    /\ UsersVisible
    /\ userManagement.isModalVisible
    /\ issued < MaxCalls
    /\ wire' = wire \cup
           {[ApiCall(issued + 1, "createUser", authToken, mounted) EXCEPT
                !.pageSize = userManagement.pagination.pageSize]}
    /\ issued' = issued + 1
    /\ UNCHANGED <<session, pages, db, analysis>>

\* handleCreate after its await, the user created: the modal closes and
\* fetchUsers(1) runs with the page size of the render that submitted.  The
\* function goes on after its component is gone; its setState calls are void.
UsersCreateResolve(r) ==
    /\ r \in wire
    /\ r.call = "createUser"
    /\ Authorized(r)
    /\ issued < MaxCalls
    /\ db' = [db EXCEPT !.created = @ + 1]
    /\ userManagement' =
           IF r.mount = mounted
           THEN [userManagement EXCEPT !.isModalVisible = FALSE, !.loading = TRUE]
           ELSE userManagement
    /\ wire' = (wire \ {r}) \cup
           {UsersRequest(issued + 1, 1, r.pageSize, authToken, r.mount)}
    /\ issued' = issued + 1
    /\ UNCHANGED <<session, qaLogs, feedbackManagement, dashboard, analysis>>

\* handleCreate after its await, the request failed with another status than
\* 401: a message is shown.
UsersCreateFail(r) ==
    /\ r \in wire
    /\ r.call = "createUser"
    /\ wire' = wire \ {r}
    /\ UNCHANGED <<session, issued, pages, db, analysis>>

----------------------------------------------------------------------------
(* The page Dashboard *)

\* noResultSummaryResponse.data || []: the body is an array of summaries, and
\* an array has no property data.
NoResultDataOf(body) == <<>>

\* One promise of the Promise.all of fetchData is fulfilled; with both, the
\* await returns.  A promise fulfilled after the await has thrown is ignored.
DashboardFulfil(r) ==
    /\ r \in wire
    /\ r.call \in {"getDashboardSummary", "getSummary"} /\ r.mount = mounted
    /\ Authorized(r)
    /\ LET body == IF r.call = "getSummary" THEN GetSummary(r) ELSE GetDashboardSummary
           got == [dashboard.fulfilled EXCEPT ![r.call] = <<body>>]
       IN dashboard' =
              IF ~dashboard.loading THEN dashboard
              ELSE IF got.getDashboardSummary # <<>> /\ got.getSummary # <<>>
              THEN [dashboard EXCEPT
                       !.fulfilled = got,
                       !.summary = got.getDashboardSummary,
                       !.noResultData = NoResultDataOf(got.getSummary[1]),
                       !.loading = FALSE]
              ELSE [dashboard EXCEPT !.fulfilled = got]
    /\ wire' = wire \ {r}
    /\ UNCHANGED <<session, issued, qaLogs, feedbackManagement, userManagement, db,
                   analysis>>

\* One promise of the Promise.all is rejected with another status than 401:
\* the await throws, once.
DashboardFail(r) ==
    /\ r \in wire
    /\ r.call \in {"getDashboardSummary", "getSummary"} /\ r.mount = mounted
    /\ dashboard' =
           IF dashboard.loading
           THEN [dashboard EXCEPT
                    !.error = "Could not load dashboard data. The backend service may be unavailable.",
                    !.loading = FALSE]
           ELSE dashboard
    /\ wire' = wire \ {r}
    /\ UNCHANGED <<session, issued, qaLogs, feedbackManagement, userManagement, db,
                   analysis>>

\* totalNoResultQueries
TotalNoResultQueries == SumCounts(dashboard.noResultData)

\* A response, other than of status 401, to a read of a page component that
\* is gone: its setState calls are void.
Discard(r) ==
    /\ r \in wire
    /\ r.caller = "page" /\ r.call # "createUser"
    /\ r.mount # mounted
    /\ wire' = wire \ {r}
    /\ UNCHANGED <<session, issued, pages, db, analysis>>

\* The site's variables where the site is not modelled.
SiteIdle ==
    /\ authToken = NoToken
    /\ sessionStorage = NoToken
    /\ auth = [isAuthenticated |-> TRUE, isLoading |-> FALSE, userInfo |-> <<>>]
    /\ mounted = 0
    /\ qaLogs = QaLogsInitial
    /\ feedbackManagement = FeedbackInitial
    /\ userManagement = UsersInitial
    /\ dashboard = DashboardInitial
    /\ wire = {}
    /\ db = [store |-> "empty", created |-> 0]

----------------------------------------------------------------------------
(* Specifications *)

\* The page over a fixed store: every row matches no date filter, and the date
\* range <<30, 60>> matches the last rows or none.
NoResultRows ==
    <<[query |-> Str_a, count |-> 3, last_occurred_at |-> 50],
      [query |-> Str_b, count |-> 2, last_occurred_at |-> 20],
      [query |-> Str_c, count |-> 2, last_occurred_at |-> 70]>>

Init ==
    /\ InitialState
    /\ SiteIdle
    /\ noResult = NoResultInitialState
    /\ route \in {"low-relevance", "no-result"}
    /\ inflight = {IF route = "low-relevance" THEN FirstLoad ELSE NoResultFirstLoad}
    /\ issued = 1
    /\ files = <<>>
    /\ \E filtered \in {<<>>, SubSeq(ListedRows, 10, 13)} :
           server = [w \in Windows |->
                        IF w = <<NoDate, NoDate>> THEN ListedRows
                        ELSE IF route = "low-relevance" THEN filtered ELSE <<>>]
    /\ \E filtered \in {<<>>, SubSeq(NoResultRows, 1, 2)} :
           noResultServer = [w \in Windows |->
                                IF w = <<NoDate, NoDate>> THEN NoResultRows
                                ELSE IF route = "no-result" THEN filtered ELSE <<>>]

Next ==
    \/ \E dates \in DateRanges : HandleDateChange(dates)
    \/ \E current \in 1..3, pageSize \in PageSizes : HandleTableChange(current, pageSize)
    \/ \E r \in inflight : ListResolve(r)
    \/ \E r \in inflight : ListReject(r)
    \/ CloseError
    \/ HandleExportCsv
    \/ \E r \in inflight, libraryThrows \in BOOLEAN : CsvResolve(r, libraryThrows)
    \/ \E r \in inflight : CsvReject(r)
    \/ HandleExportPdf
    \/ \E r \in inflight, libraryThrows \in BOOLEAN : PdfResolve(r, libraryThrows)
    \/ \E r \in inflight : PdfReject(r)
    \/ \E dates \in DateRanges : NoResultDateChange(dates)
    \/ \E r \in inflight : NoResultLoadResolve(r)
    \/ \E r \in inflight : NoResultLoadReject(r)
    \/ NoResultCloseError
    \/ \E libraryThrows \in BOOLEAN : NoResultExportCsv(libraryThrows)
    \/ \E libraryThrows \in BOOLEAN : NoResultExportPdf(libraryThrows)

Spec == Init /\ [][Next]_vars

\* No file of this kind has been downloaded yet.
NoFile(kind) == \A i \in DOMAIN files : files[i].kind # kind

\* The exports over every small store: the filter and the page are left alone,
\* the libraries do not fail and each kind of file is downloaded once.
InitExport ==
    /\ InitialState
    /\ SiteIdle
    /\ noResult = NoResultInitialState
    /\ route = "low-relevance"
    /\ inflight = {FirstLoad}
    /\ issued = 1
    /\ files = <<>>
    /\ noResultServer = [w \in Windows |-> <<>>]
    /\ \E rows \in SeqsUpTo(StringRows, MaxRecords) \cup SeqsUpTo(ScoreRows, MaxRecords) :
           server = [w \in Windows |-> WithIds(rows)]

NextExport ==
    \/ \E r \in inflight : ListResolve(r)
    \/ NoFile("csv") /\ HandleExportCsv
    \/ \E r \in inflight : CsvResolve(r, FALSE)
    \/ NoFile("pdf") /\ HandleExportPdf
    \/ \E r \in inflight : PdfResolve(r, FALSE)

SpecExport == InitExport /\ [][NextExport]_vars

\* The exports over every small store whose rows differ in their scores only.
InitScores ==
    /\ InitialState
    /\ SiteIdle
    /\ noResult = NoResultInitialState
    /\ route = "low-relevance"
    /\ inflight = {FirstLoad}
    /\ issued = 1
    /\ files = <<>>
    /\ noResultServer = [w \in Windows |-> <<>>]
    /\ \E rows \in SeqsUpTo(ScoreRows, MaxRecords) :
           server = [w \in Windows |-> WithIds(rows)]

SpecScores == InitScores /\ [][NextExport]_vars

\* The listing over every small non-empty store of two queries.
InitAggregate ==
    /\ InitialState
    /\ SiteIdle
    /\ noResult = NoResultInitialState
    /\ route = "low-relevance"
    /\ inflight = {FirstLoad}
    /\ issued = 1
    /\ files = <<>>
    /\ noResultServer = [w \in Windows |-> <<>>]
    /\ \E rows \in SeqsUpTo(AggregateRows, MaxRecords) :
           server = [w \in Windows |-> WithIds(rows)]

NextAggregate ==
    \/ \E r \in inflight : ListResolve(r)
    \/ \E pageSize \in PageSizes : HandleTableChange(1, pageSize)

SpecAggregate == InitAggregate /\ [][NextAggregate]_vars

----------------------------------------------------------------------------
(* The site: the api client, the AuthProvider and the four pages *)

\* The application as loaded: without a stored token the login page shows;
\* with one, the AuthProvider asks for the current user before anything renders.
InitSite ==
    /\ InitialState
    /\ noResult = NoResultInitialState
    /\ inflight = {}
    /\ files = <<>>
    /\ server = [w \in Windows |-> <<>>]
    /\ db \in {[store |-> "full", created |-> 0], [store |-> "empty", created |-> 0]}
    /\ noResultServer = [w \in Windows |-> IF db.store = "full" THEN NoResultRows ELSE <<>>]
    /\ qaLogs = QaLogsInitial
    /\ feedbackManagement = FeedbackInitial
    /\ userManagement = UsersInitial
    /\ dashboard = DashboardInitial
    /\ mounted = 0
    /\ sessionStorage \in {NoToken, "t1"}
    /\ authToken = sessionStorage
    /\ IF authToken = NoToken
       THEN /\ route = "login"
            /\ auth = [isAuthenticated |-> FALSE, isLoading |-> FALSE, userInfo |-> <<>>]
            /\ wire = {}
            /\ issued = 0
       ELSE /\ route \in SitePages \cup {"login"}
            /\ auth = [isAuthenticated |-> FALSE, isLoading |-> TRUE, userInfo |-> <<>>]
            /\ wire = {[ApiCall(1, "getCurrentUser", authToken, 0) EXCEPT
                            !.caller = "checkUserStatus"]}
            /\ issued = 1

NextSite ==
    \/ \E r \in wire : CheckUserStatusResolve(r)
    \/ \E r \in wire : CheckUserStatusFail(r)
    \/ \E r \in wire : Unauthorized(r)
    \/ LoginSubmit
    \/ \E r \in wire, token \in Tokens : LoginResolve(r, token)
    \/ \E r \in wire : LoginRefused(r)
    \/ \E r \in wire : LoginFail(r)
    \/ \E r \in wire : LoginUserResolve(r)
    \/ \E r \in wire : LoginUserFail(r)
    \/ Logout
    \/ \E to \in SitePages : Navigate(to)
    \/ \E value \in SearchTexts : QaLogsHandleSearch(value)
    \/ \E current \in 1..3, pageSize \in PageSizes : QaLogsHandleTableChange(current, pageSize)
    \/ \E r \in wire : QaLogsResolve(r)
    \/ \E r \in wire : QaLogsFail(r)
    \/ QaLogsCloseError
    \/ \E newFilter \in Filters : FeedbackHandleFilterChange(newFilter)
    \/ \E dates \in DateRanges : FeedbackHandleDateChange(dates)
    \/ \E current \in 1..3, pageSize \in PageSizes :
           FeedbackHandleTableChange(current, pageSize)
    \/ \E r \in wire : FeedbackResolve(r)
    \/ \E r \in wire : FeedbackFail(r)
    \/ FeedbackCloseError
    \/ \E current \in 1..3, pageSize \in PageSizes :
           UsersHandleTableChange(current, pageSize)
    \/ \E r \in wire : UsersResolve(r)
    \/ \E r \in wire : UsersFail(r)
    \/ UsersCloseError
    \/ UsersShowModal
    \/ UsersHandleCancel
    \/ UsersHandleCreate
    \/ \E r \in wire : UsersCreateResolve(r)
    \/ \E r \in wire : UsersCreateFail(r)
    \/ \E r \in wire : DashboardFulfil(r)
    \/ \E r \in wire : DashboardFail(r)
    \/ \E r \in wire : Discard(r)

SpecSite == InitSite /\ [][NextSite]_vars

\* The listings of the two analysis pages, without their exports.
NextAnalysis ==
    \/ \E dates \in DateRanges : HandleDateChange(dates)
    \/ \E current \in 1..3, pageSize \in PageSizes : HandleTableChange(current, pageSize)
    \/ \E r \in inflight : ListResolve(r)
    \/ \E r \in inflight : ListReject(r)
    \/ CloseError
    \/ \E dates \in DateRanges : NoResultDateChange(dates)
    \/ \E r \in inflight : NoResultLoadResolve(r)
    \/ \E r \in inflight : NoResultLoadReject(r)
    \/ NoResultCloseError

\* Every page of the application: a session on the site, or one of the two
\* analysis pages with its listing.
InitPages == InitSite \/ Init

NextPages == NextSite \/ NextAnalysis

SpecPages == InitPages /\ [][NextPages]_vars

----------------------------------------------------------------------------
(* Properties *)

PdfFiles == {files[i] : i \in {j \in DOMAIN files : files[j].kind = "pdf"}}

CsvFiles == {files[i] : i \in {j \in DOMAIN files : files[j].kind = "csv"}}

\* The score interval a tier label stands for.
InTier(score, tier) ==
    CASE tier = "0.6 - 0.65" -> 60000 <= score /\ score <= 100000
      [] tier = "0.5 - 0.6" -> 50000 <= score /\ score < 60000
      [] tier = "0.4 - 0.5" -> 40000 <= score /\ score < 50000
      [] tier = "< 0.4" -> 0 <= score /\ score < 40000

\* The queries listed in the rows of a tier table that carry one label.
TierQueries(doc, tier) ==
    UNION {Range(doc.summary[i].queries) :
              i \in {j \in DOMAIN doc.summary : doc.summary[j].tier = tier}}

\* The elements of a sequence at the positions idx, in their order.
Pick(seq, idx) ==
    [k \in 1..Cardinality(idx) |->
        seq[CHOOSE i \in idx : Cardinality({j \in idx : j < i}) = k - 1]]

\* (summary query, first 200 characters of content, score rounded to 4 decimals)
Triple(p) ==
    <<p.query, Substring200(p.detail.content), Round4(p.detail.relevance_score)>>

\* The records no earlier record shares its triple with.
FirstOfTriple(pairs) ==
    Pick(pairs, {i \in DOMAIN pairs :
                    \A j \in 1..(i - 1) : Triple(pairs[j]) # Triple(pairs[i])})

KeyString(p) == AnswerKey(p.query, p.detail)

\* The records no earlier record shares its key string with.
FirstOfKey(pairs) ==
    Pick(pairs, {i \in DOMAIN pairs :
                    \A j \in 1..(i - 1) : KeyString(pairs[j]) # KeyString(pairs[i])})

Ids(pairs) == [i \in DOMAIN pairs |-> pairs[i].detail.id]

RowIds(body) == [i \in DOMAIN body |-> body[i].id]

\* The sub-tables of a document's detail section that are headed by a query.
SubTables(doc, query) ==
    {i \in DOMAIN doc.detail : doc.detail[i].query = query}

\* The ids of all rows of a document's detail section.
DetailIds(doc) ==
    UNION {Range(RowIds(doc.detail[i].body)) : i \in DOMAIN doc.detail}

DetailRowCount(doc) ==
    Cardinality(UNION {{<<i, j>> : j \in DOMAIN doc.detail[i].body} :
                           i \in DOMAIN doc.detail})

\* C1: in a downloaded PDF every fetched record's score lies in exactly one of
\* the four tier intervals, its query is listed in that tier's row (0.4, 0.5,
\* 0.6 and 1.0 counting for the higher tier), and a query with a single record
\* is listed in no other row.
TiersPartitionScores ==
    \A f \in PdfFiles :
        LET pairs == FlatPairs(f.allData)
        IN \A i \in DOMAIN pairs :
              LET score == pairs[i].detail.relevance_score
                  query == pairs[i].query
                  alone == \A j \in DOMAIN pairs : pairs[j].query = query => j = i
              IN /\ Cardinality({t \in Range(TierLabels) : InTier(score, t)}) = 1
                 /\ \A t \in Range(TierLabels) :
                       /\ InTier(score, t) => query \in TierQueries(f.doc, t)
                       /\ (alone /\ query \in TierQueries(f.doc, t)) => InTier(score, t)

\* C1 witness: a PDF of a record scored 1.0 and a record scored exactly 0.4,
\* listed in the top row and in the row 0.4 - 0.5.
TierBoundariesExported ==
    \E f \in PdfFiles :
        /\ \E p \in Range(FlatPairs(f.allData)) :
              p.query = Str_a /\ p.detail.relevance_score = 100000
        /\ \E p \in Range(FlatPairs(f.allData)) :
              p.query = Str_b /\ p.detail.relevance_score = 40000
        /\ Str_a \in TierQueries(f.doc, "0.6 - 0.65")
        /\ Str_b \in TierQueries(f.doc, "0.4 - 0.5")

\* C2: the records of a downloaded PDF's detail section are exactly the fetched
\* records that no earlier record shares the triple (query, first 200
\* characters of content, score rounded to 4 decimals) with; within a query
\* they keep their input order, and no two of them share a triple.
DedupKeepsFirstOfEachTriple ==
    \A f \in PdfFiles :
        LET pairs == FlatPairs(f.allData)
            kept == FirstOfTriple(pairs)
        IN /\ DetailIds(f.doc) = Range(Ids(kept))
           /\ \A i \in DOMAIN f.doc.detail :
                 RowIds(f.doc.detail[i].body) =
                     Ids(SelectSeq(kept, LAMBDA p : p.query = f.doc.detail[i].query))
           /\ \A p, q \in {x \in Range(pairs) : x.detail.id \in DetailIds(f.doc)} :
                 Triple(p) = Triple(q) => p = q

\* C3: a downloaded PDF's detail section has no more rows than records were
\* fetched, and holds every fetched record whose triple no other record has.
DedupKeepsUniqueRecords ==
    \A f \in PdfFiles :
        LET pairs == FlatPairs(f.allData)
        IN /\ DetailRowCount(f.doc) <= Len(pairs)
           /\ \A i \in DOMAIN pairs :
                 (\A j \in DOMAIN pairs : Triple(pairs[j]) = Triple(pairs[i]) => j = i)
                     => pairs[i].detail.id \in DetailIds(f.doc)

\* C4: a downloaded CSV has, and a downloaded PDF's detail section has, as
\* many rows as records remain when the export's deduplication is applied to
\* the fetched records.
ExportRowsAreDeduplicated ==
    \A f \in CsvFiles \cup PdfFiles :
        LET remaining == Len(FirstOfKey(FlatPairs(f.allData)))
        IN IF f.kind = "csv" THEN Len(f.doc) = remaining
           ELSE DetailRowCount(f.doc) = remaining

\* The records a scan keeps, in the order their queries were first kept.
KeptPairs(st) ==
    LET obj == st.detailedAnalysis
    IN FlatPairs([i \in DOMAIN obj.keys |->
                     [query |-> obj.keys[i], results |-> obj.val[i]]])

\* C5: the records of a downloaded PDF's detail section are those its scan
\* kept, and scanning the kept records again keeps all of them, in place.
DedupIsIdempotent ==
    \A f \in PdfFiles :
        LET kept == KeptPairs(Scan(FlatPairs(f.allData), ScanInit))
        IN /\ DetailIds(f.doc) = Range(Ids(kept))
           /\ ~Scan(kept, ScanInit).thrown
           /\ KeptPairs(Scan(kept, ScanInit)) = kept

\* C5 witness: a PDF whose detail section lacks one of the fetched records.
DuplicateDropped ==
    \E f \in PdfFiles :
        /\ DetailRowCount(f.doc) < Len(FlatPairs(f.allData))
        /\ DetailRowCount(f.doc) > 1

\* C6: a downloaded PDF's tier table has one row for each of the four labels,
\* in their order; a row lists a query just when a fetched record of the query
\* has a score in the row's tier, and lists no query twice.
TierTableListsQueries ==
    \A f \in PdfFiles :
        /\ [i \in DOMAIN f.doc.summary |-> f.doc.summary[i].tier] = TierLabels
        /\ \A i \in DOMAIN f.doc.summary :
              LET row == f.doc.summary[i]
              IN /\ Range(row.queries) =
                        {p.query : p \in {x \in Range(FlatPairs(f.allData)) :
                                             InTier(x.detail.relevance_score, row.tier)}}
                 /\ \A j, k \in DOMAIN row.queries :
                       row.queries[j] = row.queries[k] => j = k

\* C6 witness: a PDF with an empty row, and one query listed in two rows after
\* two of its records fell into one tier.
TierTableWithEmptyRow ==
    \E f \in PdfFiles :
        /\ \E i \in DOMAIN f.doc.summary : f.doc.summary[i].queries = <<>>
        /\ Str_a \in TierQueries(f.doc, "< 0.4")
        /\ Str_a \in TierQueries(f.doc, "0.6 - 0.65")
        /\ Cardinality({p \in Range(FlatPairs(f.allData)) :
                           p.detail.relevance_score < 40000}) = 2

Issues(r, kinds) == r \in inflight' /\ r \notin inflight /\ r.kind \in kinds

\* C8: a step that starts a CSV or PDF export issues a request with skip 0,
\* the dates of the current dateRange and the listing's last total as limit,
\* whose response holds every summary the table displays at that moment.
ExportCoversDisplayedRows ==
    [][\A r \in inflight' :
          Issues(r, {"csv", "pdf"}) =>
              /\ r.skip = 0
              /\ r.startDate = StartDate(dateRange)
              /\ r.endDate = EndDate(dateRange)
              /\ r.limit = pagination.total
              /\ \A i \in DOMAIN data : data[i] \in Range(GetResults(r).data)]_vars

\* A step in which the CSV export fails: its fetch rejects or its build throws.
CsvFails == \E r \in inflight : CsvReject(r) \/ CsvResolve(r, TRUE)

\* A step in which the PDF export fails: its fetch rejects, a library throws or
\* the scan throws.
PdfFails ==
    \E r \in inflight :
        \/ PdfReject(r)
        \/ PdfResolve(r, TRUE)
        \/ PdfResolve(r, FALSE) /\ Scan(FlatPairs(GetResults(r).data), ScanInit).thrown

\* A step in which an export of NoResultAnalysis fails: a library throws.
NoResultCsvFails == NoResultExportCsv(TRUE)

NoResultPdfFails == NoResultExportPdf(TRUE)

\* C9 as stated: a failed export downloads no file, sets the error to the
\* export's failure message, clears the exporting flag and leaves the export
\* button ready for another click.
FailedExportCanBeRepeated ==
    [][/\ CsvFails => /\ files' = files
                      /\ error' = "Failed to export data."
                      /\ ~exportingCsv'
                      /\ CanExportCsv'
       /\ PdfFails => /\ files' = files
                      /\ error' = "Failed to export PDF."
                      /\ ~exportingPdf'
                      /\ CanExportPdf'
       /\ NoResultCsvFails => /\ files' = files
                              /\ noResult'.error = "Failed to export CSV data."
                              /\ ~noResult'.exportingCsv
                              /\ NoResultCanExport(noResult.exportingCsv)'
       /\ NoResultPdfFails => /\ files' = files
                              /\ noResult'.error = "Failed to export PDF."
                              /\ ~noResult'.exportingPdf
                              /\ NoResultCanExport(noResult.exportingPdf)']_vars

\* C9 amended: a failed export downloads no file, sets the error to the
\* export's failure message and clears the exporting flag; the export button
\* is ready for another click if the table still shows rows.
FailedExportLeavesNoFile ==
    [][/\ CsvFails => /\ files' = files
                      /\ error' = "Failed to export data."
                      /\ ~exportingCsv'
                      /\ (data' # <<>> => CanExportCsv')
       /\ PdfFails => /\ files' = files
                      /\ error' = "Failed to export PDF."
                      /\ ~exportingPdf'
                      /\ (data' # <<>> => CanExportPdf')
       /\ NoResultCsvFails => /\ files' = files
                              /\ noResult'.error = "Failed to export CSV data."
                              /\ ~noResult'.exportingCsv
                              /\ NoResultCanExport(noResult.exportingCsv)'
       /\ NoResultPdfFails => /\ files' = files
                              /\ noResult'.error = "Failed to export PDF."
                              /\ ~noResult'.exportingPdf
                              /\ NoResultCanExport(noResult.exportingPdf)']_vars

\* C9 witness: a CSV export has failed and nothing was downloaded, while the
\* table, emptied by a later load, keeps the button disabled.
CsvExportFailedOnEmptyTable ==
    /\ error = "Failed to export data."
    /\ files = <<>>
    /\ ~exportingCsv
    /\ \A r \in inflight : r.kind # "csv"
    /\ data = <<>>
    /\ ~loading

\* C10: the table shows the server's answer to a list request as it came: the
\* rows are the response's data, duplicates included, and the total is the
\* response's total.
ListingShowsResponse ==
    \/ data = <<>> /\ pagination.total = 0
    \/ \E range \in DateRanges, pageSize \in PageSizes, current \in 1..3 :
          LET result == GetResults([skip |-> (current - 1) * pageSize,
                                    limit |-> pageSize,
                                    startDate |-> StartDate(range),
                                    endDate |-> EndDate(range)])
          IN data = result.data /\ pagination.total = result.total

\* C10 witness: after a load the table shows a summary whose two records have
\* the same export key.
ListingShowsDuplicates ==
    /\ ~loading
    /\ \E i \in DOMAIN data :
          /\ Len(data[i].results) = 2
          /\ data[i].count = 2
          /\ AnswerKey(data[i].query, data[i].results[1])
                 = AnswerKey(data[i].query, data[i].results[2])

\* The queries and scores of stored rows, in stored order.
QueryScores(rows) ==
    [i \in DOMAIN rows |-> <<rows[i].query, rows[i].relevance_score>>]

\* C14: the summaries a list response carries for a non-empty store conserve
\* its records: their counts sum to the number of stored records, each count
\* is the number of the summary's detail records, every stored record is a
\* detail record of exactly one summary, each average is the mean of the
\* details' scores, and the records [a:0.65, a:0.55, b:0.2] give the summaries
\* [a: count 2, average 0.6; b: count 1, average 0.2].
AggregationConservesRecords ==
    LET records == server[<<NoDate, NoDate>>]
    IN (~loading /\ inflight = {}) =>
          /\ SumCounts(data) = Len(records)
          /\ \A i \in DOMAIN data :
                /\ data[i].count = Len(data[i].results)
                /\ data[i].avg_relevance_score.den = data[i].count
                /\ data[i].avg_relevance_score.num = SumScores(data[i].results)
          /\ \A k \in DOMAIN records :
                Cardinality({<<i, j>> \in (DOMAIN data) \X (1..Len(records)) :
                                /\ j \in DOMAIN data[i].results
                                /\ data[i].results[j].id = records[k].id
                                /\ data[i].query = records[k].query}) = 1
          /\ QueryScores(records) = <<<<Str_a, 65000>>, <<Str_a, 55000>>, <<Str_b, 20000>>>>
                => /\ Len(data) = 2
                   /\ data[1].query = Str_a /\ data[1].count = 2
                   /\ data[1].avg_relevance_score.num = 60000 * data[1].avg_relevance_score.den
                   /\ data[2].query = Str_b /\ data[2].count = 1
                   /\ data[2].avg_relevance_score.num = 20000 * data[2].avg_relevance_score.den

\* C14 witness: the table shows the summaries of the records a:0.65, a:0.55
\* and b:0.2.
AggregatedTwoQueries ==
    /\ ~loading
    /\ QueryScores(server[<<NoDate, NoDate>>]) =
           <<<<Str_a, 65000>>, <<Str_a, 55000>>, <<Str_b, 20000>>>>
    /\ Len(data) = 2
    /\ data[1].count = 2

\* C15: the sub-tables of a downloaded PDF's detail section follow the order
\* in which their queries first appear among the fetched records.
DetailGroupsInFirstSeenOrder ==
    \A f \in PdfFiles :
        \A i, j \in DOMAIN f.doc.detail :
            LET pairs == FlatPairs(f.allData)
                first(q) == CHOOSE k \in DOMAIN pairs :
                                /\ pairs[k].query = q
                                /\ \A l \in 1..(k - 1) : pairs[l].query # q
            IN i < j => first(f.doc.detail[i].query) < first(f.doc.detail[j].query)

\* The requests a step sends through the api client.
Sent == wire' \ wire

\* C11: every request a mounted list page (QA logs, feedback, users) sends has
\* skip = (current - 1) * pageSize >= 0 and limit = pageSize > 0 for the
\* page's pagination state; after a response that carries a total the table's
\* total is that total; page 2 of size 10 over 15 QA logs shows total 15 and
\* 5 rows.
ListRequestsFollowPagination ==
    [][/\ \A r \in Sent :
             (r.call \in {"getLogs", "getFeedbacks", "getUsers"} /\ r.mount = mounted')
                => LET p == IF r.call = "getLogs" THEN qaLogs'.pagination
                            ELSE IF r.call = "getFeedbacks"
                            THEN feedbackManagement'.pagination
                            ELSE userManagement'.pagination
                   IN /\ r.skip = (p.current - 1) * p.pageSize
                      /\ r.skip >= 0
                      /\ r.limit = p.pageSize
                      /\ r.limit > 0
       /\ \A r \in wire :
             /\ QaLogsResolve(r) =>
                   /\ qaLogs'.pagination.total = GetLogs(r).total
                   /\ (r.skip = 10 /\ r.limit = 10 /\ GetLogs(r).total = 15)
                         => Len(qaLogs'.data) = 5
             /\ FeedbackResolve(r) =>
                   feedbackManagement'.pagination.total = GetFeedbacks(r).total
      ]_vars

\* The list requests an analysis page sends in a step.
SentByAnalysis == inflight' \ inflight

\* C12: an empty filter is sent as no filter: a QA-log request issued while the
\* search text is empty carries no search parameter, a request issued while
\* the date range is null carries neither a start nor an end date, and no
\* request carries the empty string as its search value.
EmptyFilterIsNotSent ==
    [][/\ \A r \in Sent :
             /\ r.search # <<>>
             /\ (r.call = "getLogs" /\ r.mount = mounted' /\ qaLogs'.searchText = <<>>)
                   => r.search = UndefinedParam
             /\ (r.call = "getLogs" /\ r.mount = mounted' /\ qaLogs'.searchText # <<>>)
                   => r.search = qaLogs'.searchText
             /\ (r.call = "getFeedbacks" /\ r.mount = mounted'
                    /\ feedbackManagement'.dateRange = <<>>)
                   => r.startDate = NoDate /\ r.endDate = NoDate
       /\ \A r \in SentByAnalysis :
             /\ (r.kind = "list" /\ dateRange' = <<>>)
                   => r.startDate = NoDate /\ r.endDate = NoDate
             /\ (r.kind = "no-result" /\ noResult'.dateRange = <<>>)
                   => r.startDate = NoDate /\ r.endDate = NoDate]_vars

\* A search for "a" is still in flight when the search box is cleared, and the
\* request that follows carries no search parameter.
SearchClearedWhileSearching ==
    \E q, r \in wire :
        /\ q.call = "getLogs" /\ r.call = "getLogs"
        /\ q.id < r.id
        /\ q.search = Str_a
        /\ r.search = UndefinedParam
        /\ qaLogs.searchText = <<>>

\* C13: a response without matching records leaves a well-formed empty state
\* and no error: the list pages show no rows and total 0, the no-result
\* statistics are all 0, the dashboard over an empty store shows total 0 and
\* empty tables, and an error that was null stays null.
EmptyResponseIsNotAnError ==
    [][/\ \A r \in inflight :
             /\ (ListResolve(r) /\ GetResults(r).total = 0)
                   => /\ data' = <<>>
                      /\ pagination'.total = 0
                      /\ error = NoError => error' = NoError
             /\ (NoResultLoadResolve(r) /\ GetSummary(r) = <<>>)
                   => /\ noResult'.data = <<>>
                      /\ noResult'.stats = [totalQueries |-> 0, uniqueQueries |-> 0,
                                            avgOccurrence |-> 0, topQueryCount |-> 0]
                      /\ noResult.error = NoError => noResult'.error = NoError
       /\ \A r \in wire :
             /\ (QaLogsResolve(r) /\ GetLogs(r).total = 0)
                   => /\ qaLogs'.data = <<>>
                      /\ qaLogs'.pagination.total = 0
                      /\ qaLogs.error = NoError => qaLogs'.error = NoError
             /\ (FeedbackResolve(r) /\ GetFeedbacks(r).total = 0)
                   => /\ feedbackManagement'.data = <<>>
                      /\ feedbackManagement'.pagination.total = 0
                      /\ feedbackManagement.error = NoError
                            => feedbackManagement'.error = NoError
             /\ (DashboardFulfil(r) /\ dashboard.loading /\ ~dashboard'.loading
                    /\ db.store = "empty")
                   => /\ dashboard'.noResultData = <<>>
                      /\ SumCounts(dashboard'.noResultData) = 0
                      /\ dashboard'.summary[1].total_feedback = 0
                      /\ dashboard'.summary[1].recent_feedback = <<>>
                      /\ dashboard'.error = NoError]_vars

\* The no-result page listed rows, then a date range matched nothing: it shows
\* no rows, zeroed statistics and no error.
NoResultPageEmptied ==
    /\ route = "no-result"
    /\ ~noResult.loading
    /\ noResult.dateRange # <<>>
    /\ noResult.data = <<>>
    /\ noResult.stats.totalQueries = 0
    /\ noResult.error = NoError

\* A request sent while no token is held carries no Authorization header, and
\* a token comes to be held only by a successful login.
TokenOnlyFromLogin ==
    /\ \A r \in Sent : authToken' = NoToken => r.authorization = <<>>
    /\ (authToken = NoToken /\ authToken' # NoToken)
          => \E q \in wire : q.call = "login" /\ LoginResolve(q, authToken')

\* C16, as claimed: once a response of status 401 to any call has been
\* handled, the token is null in memory and absent from sessionStorage, and
\* no later request carries an Authorization header before a successful login
\* stores a token.
TokenClearedAfterAny401 ==
    [][/\ \A r \in wire :
             (Unauthorized(r) \/ LoginRefused(r))
                => authToken' = NoToken /\ sessionStorage' = NoToken
       /\ TokenOnlyFromLogin]_vars

\* C16, amended: once a response of status 401 to a call other than login has
\* been handled, the token is null in memory and absent from sessionStorage,
\* and no later request carries an Authorization header before a successful
\* login stores a token; a 401 answer to the login call leaves the token as
\* it was.
TokenClearedAfter401 ==
    [][/\ \A r \in wire :
             /\ Unauthorized(r) => authToken' = NoToken /\ sessionStorage' = NoToken
             /\ LoginRefused(r)
                   => authToken' = authToken /\ sessionStorage' = sessionStorage
       /\ TokenOnlyFromLogin]_vars

\* Two logins were submitted with the token of an earlier session; the first
\* succeeded, the request for the user that followed was answered 401, and
\* the token is gone while the second login is still in flight.
TokenGoneAfter401 ==
    /\ issued = 4
    /\ authToken = NoToken
    /\ sessionStorage = NoToken
    /\ \E r \in wire : r.call = "login" /\ r.authorization = <<"Bearer", "t1">>

\* C17: the client never modifies stored data: every request it sends, the
\* login call apart, is a GET request, and no step changes what the backend
\* stores.
OnlyLoginIsNotARead ==
    [][/\ \A r \in Sent : r.call # "login" => r.method = "GET"
       /\ db' = db]_vars

\* C18: the total the user list shows after a response is the number of users
\* the backend holds, whatever pages and page sizes were chosen before.
UserTotalIsTrueCount ==
    [][\A r \in wire :
          UsersResolve(r) => userManagement'.pagination.total = Len(StoredUsers)]_vars

\* The calls that fetch a list or the dashboard.
Fetches == {"getLogs", "getFeedbacks", "getUsers", "getDashboardSummary", "getSummary"}

\* C19: a failed fetch of a list or of the dashboard records the error on the
\* page and sends no request; no step that takes the answer to a fetch sends a
\* fetch, so that a new request comes only from a user action.
FailedFetchIsNotRetried ==
    [][/\ \A r \in wire :
             /\ QaLogsFail(r) => qaLogs'.error # NoError /\ Sent = {} /\ issued' = issued
             /\ FeedbackFail(r)
                   => feedbackManagement'.error # NoError /\ Sent = {} /\ issued' = issued
             /\ UsersFail(r)
                   => userManagement'.error # NoError /\ Sent = {} /\ issued' = issued
             /\ DashboardFail(r)
                   => /\ dashboard.loading => dashboard'.error # NoError
                      /\ Sent = {}
                      /\ issued' = issued
             /\ Unauthorized(r) => Sent = {} /\ issued' = issued
       /\ (\E r \in Sent : r.call \in Fetches)
             => \A q \in wire \ wire' : q.call \notin Fetches
       /\ \A r \in inflight :
             /\ ListReject(r) => error' # NoError /\ SentByAnalysis = {} /\ issued' = issued
             /\ NoResultLoadReject(r)
                   => noResult'.error # NoError /\ SentByAnalysis = {} /\ issued' = issued
       /\ SentByAnalysis # {} => inflight \subseteq inflight']_vars

\* The QA-log page shows rows, the error of a later failed fetch, and nothing
\* is in flight.
QaLogsFailedAndQuiet ==
    /\ route = "qa-logs"
    /\ qaLogs.error # NoError
    /\ ~qaLogs.loading
    /\ qaLogs.data # <<>>
    /\ wire = {}

\* C20: a step of a mounted page that changes a filter (the QA-log search
\* text, the feedback filter, a date range) sets pagination.current to 1 and
\* sends one request, with skip 0 and the new filter; no request combines the
\* new filter with the offset of the page shown before.
FilterChangeResetsPage ==
    [][/\ (mounted' = mounted /\ mounted # 0 /\ qaLogs'.searchText # qaLogs.searchText)
             => /\ qaLogs'.pagination.current = 1
                /\ Cardinality(Sent) = 1
                /\ \A r \in Sent :
                      /\ r.call = "getLogs"
                      /\ r.skip = 0
                      /\ r.search = IF qaLogs'.searchText = <<>> THEN UndefinedParam
                                    ELSE qaLogs'.searchText
       /\ (mounted' = mounted /\ mounted # 0
              /\ \/ feedbackManagement'.filter # feedbackManagement.filter
                 \/ feedbackManagement'.dateRange # feedbackManagement.dateRange)
             => /\ feedbackManagement'.pagination.current = 1
                /\ Cardinality(Sent) = 1
                /\ \A r \in Sent :
                      /\ r.call = "getFeedbacks"
                      /\ r.skip = 0
                      /\ r.liked = (CASE feedbackManagement'.filter = "all" -> "undefined"
                                      [] feedbackManagement'.filter = "liked" -> "true"
                                      [] feedbackManagement'.filter = "disliked" -> "false")
                      /\ r.startDate = StartDate(feedbackManagement'.dateRange)
                      /\ r.endDate = EndDate(feedbackManagement'.dateRange)
       /\ dateRange' # dateRange
             => /\ pagination'.current = 1
                /\ Cardinality(SentByAnalysis) = 1
                /\ \A r \in SentByAnalysis :
                      /\ r.kind = "list"
                      /\ r.skip = 0
                      /\ r.startDate = StartDate(dateRange')
                      /\ r.endDate = EndDate(dateRange')]_vars

\* The QA-log page still shows its second page while the request of a new
\* search, for the first page, is in flight.
SearchedFromSecondPage ==
    /\ route = "qa-logs"
    /\ qaLogs.data # <<>>
    /\ qaLogs.data[1].id = 11
    /\ qaLogs.searchText = Str_a
    /\ qaLogs.pagination.current = 1
    /\ \E r \in wire : r.call = "getLogs" /\ r.mount = mounted /\ r.skip = 0
                         /\ r.search = Str_a

\* C21: the rows the user list shows after a response are those of the page
\* pagination.current names; after a user was created they are the rows of
\* page 1 and pagination.current is 1, whatever page was shown before.
UserListShowsCurrentPage ==
    [][\A r \in wire :
          UsersResolve(r)
             => LET p == userManagement'.pagination
                IN /\ userManagement'.users =
                          Page(StoredUsers, (p.current - 1) * p.pageSize, p.pageSize)
                   /\ r.skip = 0 => p.current = 1]_vars

\* C22: when the last of several overlapping list fetches of a page has been
\* answered, the rows and the total shown are the answer to the request issued
\* last, the one for the page, page size and filter the page holds, in
\* whatever order the answers arrived.
LastIssuedFetchWins ==
    [][/\ \A r \in inflight :
             (ListResolve(r) /\ \A q \in inflight' : q.kind # "list")
                => LET last == [skip |-> (pagination'.current - 1) * pagination'.pageSize,
                                limit |-> pagination'.pageSize,
                                startDate |-> StartDate(dateRange'),
                                endDate |-> EndDate(dateRange')]
                   IN /\ data' = GetResults(last).data
                      /\ pagination'.total = GetResults(last).total
       /\ \A r \in wire :
             /\ (QaLogsResolve(r)
                    /\ \A q \in wire' : ~(q.call = "getLogs" /\ q.mount = mounted))
                   => LET p == qaLogs'.pagination
                          last == QaLogsRequest(r.id, p.current, p.pageSize,
                                                qaLogs'.searchText, authToken, mounted)
                      IN /\ qaLogs'.data = GetLogs(last).data
                         /\ p.total = GetLogs(last).total
             /\ (FeedbackResolve(r)
                    /\ \A q \in wire' : ~(q.call = "getFeedbacks" /\ q.mount = mounted))
                   => LET p == feedbackManagement'.pagination
                          last == FeedbackRequest(r.id, p.current, p.pageSize,
                                                  feedbackManagement'.filter,
                                                  feedbackManagement'.dateRange,
                                                  authToken, mounted)
                      IN /\ feedbackManagement'.data = GetFeedbacks(last).data
                         /\ p.total = GetFeedbacks(last).total]_vars

\* C23: on the low-relevance, no-result and QA-log pages the loading flag is
\* true while a list fetch of the page is in flight; it is false only when
\* none is.
LoadingWhileFetching ==
    /\ (route = "low-relevance" /\ \E r \in inflight : r.kind = "list") => loading
    /\ (route = "no-result" /\ \E r \in inflight : r.kind = "no-result")
          => noResult.loading
    /\ (route = "qa-logs" /\ \E r \in wire : r.call = "getLogs" /\ r.mount = mounted)
          => qaLogs.loading

\* C24: the user-management page is rendered only for an authenticated user
\* whose userInfo.is_admin is true, however the route /users was reached.
UsersPageOnlyForAdmin ==
    (route = "users" /\ mounted # 0)
       => /\ auth.isAuthenticated
          /\ auth.userInfo # <<>>
          /\ auth.userInfo[1].is_admin

\* C25: when login of the AuthProvider returns false no new token has been
\* stored: refused credentials or a thrown error leave both copies of the
\* token as they were, and after a failed request for the user neither copy
\* is the token that login call was given.
FailedLoginStoresNoToken ==
    [][\A r \in wire :
          /\ (LoginRefused(r) \/ LoginFail(r))
                => authToken' = authToken /\ sessionStorage' = sessionStorage
          /\ LoginUserFail(r)
                => /\ Authorization(authToken') # r.authorization
                   /\ Authorization(sessionStorage') # r.authorization]_vars

\* C26: whenever isAuthenticated is true the api client holds a token.
AuthenticatedHoldsToken == auth.isAuthenticated => authToken # NoToken

\* C27: the token in memory and the item auth_token of sessionStorage always
\* agree: both hold the same token or both are empty.
TokenCopiesAgree == authToken = sessionStorage

\* A login has stored a new token, in memory and in sessionStorage, while a
\* request sent with the token of an earlier session is still in flight.
NewTokenInBothCopies ==
    /\ authToken = "t2"
    /\ sessionStorage = "t2"
    /\ \E r \in wire : r.authorization = <<"Bearer", "t1">>

\* The score a string of toFixed(4) shows, in units of 1e-5.
DisplayedScore(str) ==
    10 * (10000 * DigitValue(str[1]) + 1000 * DigitValue(str[3])
            + 100 * DigitValue(str[4]) + 10 * DigitValue(str[5]) + DigitValue(str[6]))

\* C28: in a downloaded PDF every query listed in the row of a tier has a row
\* in the detail section, under that query, whose displayed score lies in the
\* tier's interval.
ListedQueryHasDetailRowInTier ==
    \A f \in PdfFiles :
        \A i \in DOMAIN f.doc.summary :
            \A query \in Range(f.doc.summary[i].queries) :
                \E k \in SubTables(f.doc, query) :
                    \E j \in DOMAIN f.doc.detail[k].body :
                        InTier(DisplayedScore(f.doc.detail[k].body[j].score),
                               f.doc.summary[i].tier)
====
